---- MODULE Spec2Model ----
(***************************************************************************)
(* DocMine knowledge pipeline (KOSPipeline): ingestion of files into a    *)
(* KnowledgeStore (information_resources, resource_segments, entities,    *)
(* segment_entity_links, embeddings), deterministic segmentation, entity  *)
(* linking, exact recall and semantic search.                             *)
(*                                                                         *)
(* Text is a sequence of tokens [w, pre]: w names a run of non-whitespace  *)
(* words (a clause ending in a full stop), pre is the whitespace in front  *)
(* of it: 0 none, 1 one space, 2 any other whitespace run (newline, two    *)
(* spaces).  SHA-256 is modelled as an injective tagging of its input.     *)
(***************************************************************************)
EXTENDS Integers, Sequences, FiniteSets, TLC

VARIABLES files, stores, clock, last, hist, runs

vars == <<files, stores, clock, last, hist, runs>>

-----------------------------------------------------------------------------
(* Bounds of the model *)

\* number of store-mutating calls explored per behaviour
MaxClock == 2

(* Program constants *)

\* DeterministicSegmenter(sentences_per_segment=3)
SentencesPerSegment == 3
\* _split_sentences drops sentences shorter than 20 characters
MinSentenceLen == 20
\* RegexEntityExtractor(min_confidence=0.5), in percent
MinConfidence == 50
\* _calculate_confidence base_confidence = 0.7, in percent
BaseConfidence == 70

\* KOSPipeline(namespace="default")
DefaultNamespace == "default"
\* KOSPipeline(embedding_model=...)
EmbeddingModelName == "all-mpnet-base-v2"

-----------------------------------------------------------------------------
(* The texts of the model *)

\* "S1" The CCNA001 strain showed resistance.
\* "S2" Additional findings were documented.
\* "S3" The BRCA1 gene was also analyzed for mutations.
\* "S4" Strain CCNA0012 was sequenced again.
\* "Yes" Yes.
\* "cont" and so it went on.
PieceLen(w) ==
  CASE w = "S1" -> 37
    [] w = "S2" -> 36
    [] w = "S3" -> 47
    [] w = "S4" -> 36
    [] w = "Yes" -> 4
    [] w = "cont" -> 18
    [] OTHER -> 0

\* the clause starts with an upper-case letter: (?=[A-Z])
StartsUpper(w) == w \in {"S1", "S2", "S3", "S4", "Yes"}

\* the clause ends with ., ! or ?: (?<=[.!?])
EndsStop(w) == w \in {"S1", "S2", "S3", "S4", "Yes", "cont"}

\* the entity-like names that occur in a clause, in text order
Mentions(w) ==
  CASE w = "S1" -> <<"CCNA001">>
    [] w = "S3" -> <<"BRCA1">>
    [] w = "S4" -> <<"CCNA0012">>
    [] OTHER -> <<>>

\* name in text: sub occurs in the name as a literal substring
NameContains(name, sub) == name = sub \/ (name = "CCNA0012" /\ sub = "CCNA001")

Tok(w, pre) == [w |-> w, pre |-> pre]

WsLen(pre) == pre

RECURSIVE TextLen(_)
TextLen(t) ==
  IF t = <<>> THEN 0
  ELSE WsLen(Head(t).pre) + PieceLen(Head(t).w) + TextLen(Tail(t))

\* str.strip() on a text that ends in a clause: drops the leading whitespace
Strip(t) == IF t = <<>> THEN <<>> ELSE <<Tok(t[1].w, 0)>> \o Tail(t)

\* " ".join(parts), parts a sequence of texts
RECURSIVE JoinSpace(_)
JoinSpace(parts) ==
  IF parts = <<>> THEN <<>>
  ELSE IF Len(parts) = 1 THEN parts[1]
  ELSE LET rest == JoinSpace(Tail(parts))
       IN  IF rest = <<>> THEN parts[1] \o rest
           ELSE parts[1] \o <<Tok(rest[1].w, IF rest[1].pre = 0 THEN 1 ELSE 2)>>
                \o Tail(rest)

-----------------------------------------------------------------------------
(* StableIdentity: docmine/models/stable_id.py *)

Sha256(x) == <<"sha256", x>>

\* " ".join(text.strip().split())
normalize_text(t) ==
  [i \in 1..Len(t) |-> Tok(t[i].w, IF i = 1 THEN 0 ELSE 1)]

\* a faulty generate_segment_id: the provenance key is left out of the hash
generate_segment_id_by_text(namespace, source_uri, provenance_key, text) ==
  Sha256(<<namespace, source_uri, normalize_text(text)>>)

generate_segment_id(namespace, source_uri, provenance_key, text) ==
  Sha256(<<namespace, source_uri, provenance_key, normalize_text(text)>>)

generate_text_hash(text) == Sha256(normalize_text(text))

generate_content_hash(content) == Sha256(content)

\* the keys of a provenance dict, sorted
ProvenanceKeys == <<"heading_path", "page", "para", "sentence", "sentence_count">>

\* provenance[k]
ProvenanceValue(provenance, k) ==
  CASE k = "heading_path" -> provenance.heading_path
    [] k = "page" -> provenance.page
    [] k = "para" -> provenance.para
    [] k = "sentence" -> provenance.sentence
    [] OTHER -> provenance.sentence_count

\* build_provenance_key(provenance): the parts of the key, which the code
\* joins with ":"; a provenance is [keys, page, heading_path, para, sentence,
\* sentence_count] (see Provenance below), none has the key "line" or "table"
build_provenance_key(provenance) ==
  IF {"page", "sentence"} \subseteq provenance.keys
  THEN <<provenance.page, provenance.sentence>>
  ELSE IF "heading_path" \in provenance.keys
       THEN <<provenance.heading_path, provenance.para, provenance.sentence>>
       ELSE LET keys == SelectSeq(ProvenanceKeys, LAMBDA k : k \in provenance.keys)
            IN  [i \in 1..Len(keys) |-> ProvenanceValue(provenance, keys[i])]

-----------------------------------------------------------------------------
(* DeterministicSegmenter: docmine/ingest/segmenter.py *)

Min(a, b) == IF a < b THEN a ELSE b

\* re.split(r'(?<=[.!?])\s+(?=[A-Z])', text): cur is the part being read,
\* acc the parts already cut off
RECURSIVE ReSplit(_, _, _)
ReSplit(toks, cur, acc) ==
  IF toks = <<>> THEN acc \o <<cur>>
  ELSE LET t == Head(toks)
       IN  IF cur # <<>> /\ EndsStop(cur[Len(cur)].w) /\ t.pre > 0 /\ StartsUpper(t.w)
           THEN ReSplit(Tail(toks), <<Tok(t.w, 0)>>, acc \o <<cur>>)
           ELSE ReSplit(Tail(toks), cur \o <<t>>, acc)

RECURSIVE StripNonEmpty(_)
StripNonEmpty(parts) ==
  IF parts = <<>> THEN <<>>
  ELSE (IF Strip(Head(parts)) # <<>> THEN <<Strip(Head(parts))>> ELSE <<>>)
       \o StripNonEmpty(Tail(parts))

RECURSIVE DropShort(_)
DropShort(parts) ==
  IF parts = <<>> THEN <<>>
  ELSE (IF TextLen(Head(parts)) >= MinSentenceLen THEN <<Head(parts)>> ELSE <<>>)
       \o DropShort(Tail(parts))

split_sentences(text) == DropShort(StripNonEmpty(ReSplit(text, <<>>, <<>>)))

\* provenance dicts: keys names the keys present, the other fields hold their
\* values (0 / "" when the key is absent)
Provenance(keys, page, heading_path, para, sentence, sentence_count) ==
  [keys |-> keys, page |-> page, heading_path |-> heading_path, para |-> para,
   sentence |-> sentence, sentence_count |-> sentence_count]

ResourceSegment(id, ir_id, segment_index, text, provenance, text_hash, created_at) ==
  [id |-> id, ir_id |-> ir_id, segment_index |-> segment_index, text |-> text,
   provenance |-> provenance, text_hash |-> text_hash, created_at |-> created_at]

\* the loop of segment_text over sent_idx in range(0, len(sentences), n)
RECURSIVE segment_text_loop(_, _, _, _, _, _, _)
segment_text_loop(sentences, sent_idx, segments, ir_id, namespace, source_uri, now) ==
  IF sent_idx >= Len(sentences) THEN segments
  ELSE LET batch == SubSeq(sentences, sent_idx + 1,
                           Min(sent_idx + SentencesPerSegment, Len(sentences)))
           segment_text_ == JoinSpace(batch)
           provenance == Provenance({"sentence", "sentence_count"}, 0, "", 0,
                                    sent_idx, Len(batch))
           provenance_key == <<sent_idx>>
           segment == ResourceSegment(
                        generate_segment_id(namespace, source_uri, provenance_key,
                                            segment_text_),
                        ir_id, Len(segments), segment_text_, provenance,
                        generate_text_hash(segment_text_), now)
       IN  segment_text_loop(sentences, sent_idx + SentencesPerSegment,
                             IF Strip(segment_text_) = <<>> THEN segments
                             ELSE Append(segments, segment),
                             ir_id, namespace, source_uri, now)

\* a faulty segment_text: the ids derived from the resource's id instead of
\* its source_uri
segment_text_by_ir_id(text, ir_id, namespace, source_uri, now) ==
  segment_text_loop(split_sentences(text), 0, <<>>, ir_id, namespace, ir_id, now)

segment_text(text, ir_id, namespace, source_uri, now) ==
  segment_text_loop(split_sentences(text), 0, <<>>, ir_id, namespace, source_uri, now)

\* the inner loop of segment_pages over the sentences of one page: acc is
\* [all_segments, global_index]
RECURSIVE segment_page_loop(_, _, _, _, _, _, _, _)
segment_page_loop(sentences, sent_idx, acc, page_num, ir_id, namespace, source_uri, now) ==
  IF sent_idx >= Len(sentences) THEN acc
  ELSE LET batch == SubSeq(sentences, sent_idx + 1,
                           Min(sent_idx + SentencesPerSegment, Len(sentences)))
           segment_text_ == JoinSpace(batch)
           segment == ResourceSegment(
                        generate_segment_id(namespace, source_uri, <<page_num, sent_idx>>,
                                            segment_text_),
                        ir_id, acc.global_index, segment_text_,
                        Provenance({"page", "sentence", "sentence_count"}, page_num, "",
                                   0, sent_idx, Len(batch)),
                        generate_text_hash(segment_text_), now)
       IN  segment_page_loop(sentences, sent_idx + SentencesPerSegment,
                             IF Strip(segment_text_) = <<>> THEN acc
                             ELSE [all_segments |-> Append(acc.all_segments, segment),
                                   global_index |-> acc.global_index + 1],
                             page_num, ir_id, namespace, source_uri, now)

\* a faulty pass of segment_pages: the index starts again on every page
segment_page_restart(acc, page, ir_id, namespace, source_uri, now) ==
  segment_page_loop(split_sentences(page.text), 0,
                    [acc EXCEPT !.global_index = 0], page.page_num, ir_id, namespace,
                    source_uri, now)

\* one pass of the outer loop of segment_pages; page is [page_num, text]
segment_page(acc, page, ir_id, namespace, source_uri, now) ==
  segment_page_loop(split_sentences(page.text), 0, acc, page.page_num, ir_id,
                    namespace, source_uri, now)

RECURSIVE segment_pages_loop(_, _, _, _, _, _)
segment_pages_loop(acc, pages, ir_id, namespace, source_uri, now) ==
  IF pages = <<>> THEN acc
  ELSE segment_pages_loop(segment_page(acc, Head(pages), ir_id, namespace, source_uri,
                                       now),
                          Tail(pages), ir_id, namespace, source_uri, now)

segment_pages(pages, ir_id, namespace, source_uri, now) ==
  segment_pages_loop([all_segments |-> <<>>, global_index |-> 0], pages, ir_id,
                     namespace, source_uri, now).all_segments

\* the loop of _segment_paragraph over sent_idx
RECURSIVE segment_paragraph_loop(_, _, _, _, _, _, _, _, _, _)
segment_paragraph_loop(sentences, sent_idx, segments, heading, para_index, ir_id, namespace, source_uri, start_index, now) ==
  IF sent_idx >= Len(sentences) THEN segments
  ELSE LET batch == SubSeq(sentences, sent_idx + 1,
                           Min(sent_idx + SentencesPerSegment, Len(sentences)))
           segment_text_ == JoinSpace(batch)
           segment == ResourceSegment(
                        generate_segment_id(namespace, source_uri,
                                            <<heading, para_index, sent_idx>>,
                                            segment_text_),
                        ir_id, start_index + Len(segments), segment_text_,
                        Provenance({"heading_path", "para", "sentence", "sentence_count"},
                                   0, heading, para_index, sent_idx, Len(batch)),
                        generate_text_hash(segment_text_), now)
       IN  segment_paragraph_loop(sentences, sent_idx + SentencesPerSegment,
                                  IF Strip(segment_text_) = <<>> THEN segments
                                  ELSE Append(segments, segment),
                                  heading, para_index, ir_id, namespace, source_uri,
                                  start_index, now)

\* a faulty _segment_paragraph: the paragraph is taken for one sentence
segment_paragraph_unsplit(para_lines, heading, para_index, ir_id, namespace, source_uri, start_index, now) ==
  segment_paragraph_loop(<<JoinSpace(para_lines)>>, 0, <<>>, heading, para_index, ir_id,
                         namespace, source_uri, start_index, now)

segment_paragraph(para_lines, heading, para_index, ir_id, namespace, source_uri, start_index, now) ==
  segment_paragraph_loop(split_sentences(JoinSpace(para_lines)), 0, <<>>, heading,
                         para_index, ir_id, namespace, source_uri, start_index, now)

\* a line of a markdown text, text.split('\n') being the sequence of them:
\* a heading ("# title") or a line of text, empty when blank
HeadingLine(title) == [heading |-> TRUE, title |-> title, text |-> <<>>]
TextLine(text) == [heading |-> FALSE, title |-> "", text |-> text]

\* a faulty pass over a heading: the paragraph in front of it is numbered
\* from 0 again
markdown_heading_restart(acc, line, ir_id, namespace, source_uri, now) ==
  IF acc.current_para # <<>>
  THEN [segments |-> acc.segments \o
                     segment_paragraph(acc.current_para, acc.current_heading,
                                       acc.para_index, ir_id, namespace, source_uri,
                                       0, now),
        global_index |-> 0, current_heading |-> line.title, current_para |-> <<>>,
        para_index |-> acc.para_index + 1]
  ELSE [acc EXCEPT !.current_heading = line.title]

\* the branch of the loop of segment_markdown for a line that starts with '#';
\* acc is [segments, global_index, current_heading, current_para, para_index]
markdown_heading(acc, line, ir_id, namespace, source_uri, now) ==
  LET Extended(segments) ==
        [segments |-> segments, global_index |-> acc.global_index + Len(segments),
         current_heading |-> line.title, current_para |-> <<>>,
         para_index |-> acc.para_index + 1]
  IN  IF acc.current_para # <<>>
      THEN Extended(acc.segments \o
                    segment_paragraph(acc.current_para, acc.current_heading,
                                      acc.para_index, ir_id, namespace, source_uri,
                                      acc.global_index, now))
      ELSE [acc EXCEPT !.current_heading = line.title]

RECURSIVE segment_markdown_loop(_, _, _, _, _, _)
segment_markdown_loop(acc, lines, ir_id, namespace, source_uri, now) ==
  IF lines = <<>> THEN acc
  ELSE segment_markdown_loop(
         IF Head(lines).heading
         THEN markdown_heading(acc, Head(lines), ir_id, namespace, source_uri, now)
         ELSE IF Strip(Head(lines).text) # <<>>
              THEN [acc EXCEPT !.current_para = Append(@, Head(lines).text)]
              ELSE acc,
         Tail(lines), ir_id, namespace, source_uri, now)

segment_markdown(lines, ir_id, namespace, source_uri, now) ==
  LET Final(acc) ==
        IF acc.current_para # <<>>
        THEN acc.segments \o
             segment_paragraph(acc.current_para, acc.current_heading, acc.para_index,
                               ir_id, namespace, source_uri, acc.global_index, now)
        ELSE acc.segments
  IN  Final(segment_markdown_loop(
              [segments |-> <<>>, global_index |-> 0, current_heading |-> "root",
               current_para |-> <<>>, para_index |-> 0],
              lines, ir_id, namespace, source_uri, now))

-----------------------------------------------------------------------------
(* RegexEntityExtractor: docmine/extraction/regex_extractor.py *)

\* the keys of DEFAULT_PATTERNS, in dict order
PatternTypes == <<"strain", "gene", "protein", "email", "doi", "pmid", "accession">>

\* pattern.finditer: does the pattern of entity_type match the name
PatternMatches(entity_type, name) ==
  CASE entity_type = "strain" -> name \in {"CCNA001", "BRCA1", "CCNA0012"}
    [] entity_type = "gene" -> name \in {"BRCA1"}
    [] entity_type = "protein" -> name \in {"CCNA001", "BRCA1"}
    [] OTHER -> FALSE

NameLen(name) ==
  CASE name = "CCNA001" -> 7 [] name = "BRCA1" -> 5 [] name = "CCNA0012" -> 8
    [] OTHER -> 0
NameMixedCase(name) == FALSE
NameHasDigit(name) == name \in {"CCNA001", "BRCA1", "CCNA0012"}

calculate_confidence(entity_type, name) ==
  Min(100, BaseConfidence
           + (IF NameLen(name) >= 6 THEN 10 ELSE 0)
           + (IF NameMixedCase(name) THEN 10 ELSE 0)
           + (IF NameHasDigit(name) THEN 5 ELSE 0)
           + (IF entity_type \in {"email", "doi", "pmid"} THEN 20 ELSE 0))

ExtractedEntity(type, name, confidence) ==
  [type |-> type, name |-> name, aliases |-> <<>>, confidence |-> confidence,
   metadata |-> {}]

RECURSIVE NamesIn(_)
NamesIn(text) ==
  IF text = <<>> THEN <<>> ELSE Mentions(Head(text).w) \o NamesIn(Tail(text))

\* the inner loop of extract over the matches of one pattern
RECURSIVE extract_matches(_, _, _)
extract_matches(entity_type, names, entities) ==
  IF names = <<>> THEN entities
  ELSE LET name == Head(names)
           seen == \E i \in 1..Len(entities) :
                     entities[i].type = entity_type /\ entities[i].name = name
           confidence == calculate_confidence(entity_type, name)
       IN  extract_matches(entity_type, Tail(names),
             IF PatternMatches(entity_type, name) /\ ~seen /\ confidence >= MinConfidence
             THEN Append(entities, ExtractedEntity(entity_type, name, confidence))
             ELSE entities)

RECURSIVE extract_types(_, _, _)
extract_types(types, text, entities) ==
  IF types = <<>> THEN entities
  ELSE extract_types(Tail(types), text,
                     extract_matches(Head(types), NamesIn(text), entities))

extract(text) == extract_types(PatternTypes, text, <<>>)

-----------------------------------------------------------------------------
(* KnowledgeStore: docmine/storage/knowledge_store.py.  A store is a record *)
(* of its five tables, each a sequence of rows in insertion order, and the  *)
(* number of uuids minted on behalf of it.                                  *)

EmptyStore(tag) ==
  [tag |-> tag, information_resources |-> <<>>, resource_segments |-> <<>>,
   entities |-> <<>>, segment_entity_links |-> <<>>, embeddings |-> <<>>,
   uuids |-> 0]

\* uuid.uuid4(): an id no other call returns
Uuid4(st) == <<"uuid", st.tag, st.uuids + 1>>

\* fetchone(): the first of the row indexes idx that match, 0 when none does
FirstIndex(idx) ==
  IF idx = {} THEN 0 ELSE CHOOSE i \in idx : \A j \in idx : i <= j

\* fetchall(): the rows at the indexes idx that match, in the order of rows
SelectRows(rows, idx) ==
  [k \in 1..Cardinality(idx) |->
     rows[CHOOSE i \in idx : Cardinality({j \in idx : j <= i}) = k]]

InformationResource(id, namespace, source_type, source_uri, content_hash, metadata, created_at, updated_at) ==
  [id |-> id, namespace |-> namespace, source_type |-> source_type,
   source_uri |-> source_uri, content_hash |-> content_hash, metadata |-> metadata,
   created_at |-> created_at, updated_at |-> updated_at]

\* index of the row, 0 for None
get_ir_by_uri(st, namespace, source_uri) ==
  FirstIndex({i \in 1..Len(st.information_resources) :
                /\ st.information_resources[i].namespace = namespace
                /\ st.information_resources[i].source_uri = source_uri})

get_ir_by_id(st, ir_id) ==
  FirstIndex({i \in 1..Len(st.information_resources) :
                st.information_resources[i].id = ir_id})

\* a faulty upsert_information_resource: a plain INSERT, without the lookup
\* by (namespace, source_uri)
upsert_information_resource_insert(st, ir, now) ==
  [st |-> [st EXCEPT !.information_resources = Append(@, ir)], ir |-> ir]

\* returns [st, ir]: the store after the call and the returned object
upsert_information_resource(st, ir, now) ==
  LET Update(existing) ==
        IF existing # 0
        THEN [st |-> [st EXCEPT !.information_resources[existing] =
                        [@ EXCEPT !.content_hash = ir.content_hash,
                                  !.metadata = ir.metadata,
                                  !.updated_at = now]],
              ir |-> [ir EXCEPT !.updated_at = now,
                                !.id = st.information_resources[existing].id,
                                !.created_at =
                                  st.information_resources[existing].created_at]]
        ELSE [st |-> [st EXCEPT !.information_resources = Append(@, ir)],
              ir |-> ir]
  IN  Update(get_ir_by_uri(st, ir.namespace, ir.source_uri))

get_segment_by_id(st, segment_id) ==
  FirstIndex({i \in 1..Len(st.resource_segments) :
                st.resource_segments[i].id = segment_id})

\* a faulty upsert_segment: a plain INSERT, without the lookup by id
upsert_segment_insert(st, segment) ==
  [st EXCEPT !.resource_segments = Append(@, segment)]

upsert_segment(st, segment) ==
  LET Update(existing) ==
        IF existing # 0
        THEN [st EXCEPT !.resource_segments[existing] =
                [@ EXCEPT !.text = segment.text, !.provenance = segment.provenance,
                          !.text_hash = segment.text_hash]]
        ELSE [st EXCEPT !.resource_segments = Append(@, segment)]
  IN  Update(get_segment_by_id(st, segment.id))

RECURSIVE bulk_upsert_segments(_, _)
bulk_upsert_segments(st, segments) ==
  IF segments = <<>> THEN st
  ELSE bulk_upsert_segments(upsert_segment(st, Head(segments)), Tail(segments))

\* all pairs of indexes of rows
IndexPairs(rows) == (1..Len(rows)) \X (1..Len(rows))

\* ORDER BY: rows sorted by before, the pairs <<i, j>> of indexes such that
\* row i comes before row j; rows that neither comes before the other stay in
\* the order of rows
SortRows(rows, before) ==
  LET Rank(i) == Cardinality({j \in 1..Len(rows) :
                    <<j, i>> \in before \/ (<<i, j>> \notin before /\ j < i)}) + 1
  IN  [k \in 1..Len(rows) |-> rows[CHOOSE i \in 1..Len(rows) : Rank(i) = k]]

\* ... WHERE ir_id = ? ORDER BY segment_index
get_segments_for_ir(st, ir_id) ==
  LET Ordered(rows) ==
        SortRows(rows, {p \in IndexPairs(rows) :
                          rows[p[1]].segment_index < rows[p[2]].segment_index})
  IN  Ordered(SelectRows(st.resource_segments,
                         {i \in 1..Len(st.resource_segments) :
                            st.resource_segments[i].ir_id = ir_id}))

NoNamespace == ""

count_segments(st, namespace) ==
  IF namespace # NoNamespace
  THEN Cardinality({<<i, j>> \in (1..Len(st.resource_segments))
                                  \X (1..Len(st.information_resources)) :
                      /\ st.resource_segments[i].ir_id = st.information_resources[j].id
                      /\ st.information_resources[j].namespace = namespace})
  ELSE Len(st.resource_segments)

Entity(id, namespace, type, name, aliases, metadata, created_at, updated_at) ==
  [id |-> id, namespace |-> namespace, type |-> type, name |-> name,
   aliases |-> aliases, metadata |-> metadata, created_at |-> created_at,
   updated_at |-> updated_at]

\* a faulty get_entity_by_name: the WHERE clause without the type
get_entity_by_name_any_type(st, namespace, entity_type, name) ==
  FirstIndex({i \in 1..Len(st.entities) :
                st.entities[i].namespace = namespace /\ st.entities[i].name = name})

\* a faulty get_entity_by_name: the WHERE clause without the namespace
get_entity_by_name_any_namespace(st, namespace, entity_type, name) ==
  FirstIndex({i \in 1..Len(st.entities) :
                st.entities[i].type = entity_type /\ st.entities[i].name = name})

get_entity_by_name(st, namespace, entity_type, name) ==
  FirstIndex({i \in 1..Len(st.entities) :
                /\ st.entities[i].namespace = namespace
                /\ st.entities[i].type = entity_type
                /\ st.entities[i].name = name})

\* returns [st, entity]
upsert_entity(st, entity, now) ==
  LET Update(existing) ==
        IF existing # 0
        THEN [st |-> [st EXCEPT !.entities[existing] =
                        [@ EXCEPT !.aliases = entity.aliases,
                                  !.metadata = entity.metadata,
                                  !.updated_at = now]],
              entity |-> [entity EXCEPT !.updated_at = now,
                                        !.id = st.entities[existing].id,
                                        !.created_at = st.entities[existing].created_at]]
        ELSE [st |-> [st EXCEPT !.entities = Append(@, entity)], entity |-> entity]
  IN  Update(get_entity_by_name(st, entity.namespace, entity.type, entity.name))

\* ... WHERE namespace = ? AND type = ? ORDER BY name ("" for no filter)
NameBefore(a, b) ==
  \/ a = "BRCA1" /\ b \in {"CCNA001", "CCNA0012"}
  \/ a = "CCNA001" /\ b = "CCNA0012"

list_entities(st, namespace, entity_type) ==
  LET Ordered(rows) ==
        SortRows(rows, {p \in IndexPairs(rows) :
                          NameBefore(rows[p[1]].name, rows[p[2]].name)})
  IN  Ordered(SelectRows(st.entities,
                {i \in 1..Len(st.entities) :
                   /\ (namespace # NoNamespace => st.entities[i].namespace = namespace)
                   /\ (entity_type # "" => st.entities[i].type = entity_type)}))

EntityLink(segment_id, entity_id, link_type, confidence, created_at) ==
  [segment_id |-> segment_id, entity_id |-> entity_id, link_type |-> link_type,
   confidence |-> confidence, created_at |-> created_at]

\* a faulty __post_init__: no confidence is rejected
AnyConfidence(confidence) == TRUE

\* EntityLink.__post_init__ and ExtractedEntity.__post_init__ accept the
\* confidence: 0.0 <= confidence <= 1.0, in percent
ValidConfidence(confidence) == 0 <= confidence /\ confidence <= 100

LinkKey(l) == <<l.segment_id, l.entity_id, l.link_type>>

\* a faulty add_entity_link: a plain INSERT
add_entity_link_insert(st, link) ==
  [st EXCEPT !.segment_entity_links = Append(@, link)]

\* INSERT OR REPLACE under UNIQUE(segment_id, entity_id, link_type)
add_entity_link(st, link) ==
  LET Replace(existing) ==
        IF existing # 0
        THEN [st EXCEPT !.segment_entity_links[existing] = link]
        ELSE [st EXCEPT !.segment_entity_links = Append(@, link)]
  IN  Replace(FirstIndex({i \in 1..Len(st.segment_entity_links) :
                            LinkKey(st.segment_entity_links[i]) = LinkKey(link)}))

RECURSIVE bulk_add_entity_links(_, _)
bulk_add_entity_links(st, links) ==
  IF links = <<>> THEN st
  ELSE bulk_add_entity_links(add_entity_link(st, Head(links)), Tail(links))

\* a faulty get_segments_for_entity: the query with a LIMIT 1
get_segments_for_entity_limit(st, entity_id) ==
  LET First(j) ==
        IF j = 0 THEN <<>>
        ELSE <<[segment |-> st.resource_segments[
                              get_segment_by_id(st, st.segment_entity_links[j].segment_id)],
                link |-> st.segment_entity_links[j]]>>
  IN  First(FirstIndex({j \in 1..Len(st.segment_entity_links) :
                          st.segment_entity_links[j].entity_id = entity_id}))

\* resource_segments JOIN segment_entity_links WHERE entity_id = ?
\* ORDER BY rs.created_at: a sequence of [segment, link]
get_segments_for_entity(st, entity_id) ==
  LET pairs == {<<i, j>> \in (1..Len(st.resource_segments))
                             \X (1..Len(st.segment_entity_links)) :
                  /\ st.resource_segments[i].id = st.segment_entity_links[j].segment_id
                  /\ st.segment_entity_links[j].entity_id = entity_id}
      joined == [k \in 1..Cardinality(pairs) |->
                   LET p == CHOOSE q \in pairs :
                              Cardinality({r \in pairs :
                                 r[1] < q[1] \/ (r[1] = q[1] /\ r[2] <= q[2])}) = k
                   IN  [segment |-> st.resource_segments[p[1]],
                        link |-> st.segment_entity_links[p[2]]]]
      Ordered(rows) ==
        SortRows(rows, {p \in IndexPairs(rows) :
                          rows[p[1]].segment.created_at < rows[p[2]].segment.created_at})
  IN  Ordered(joined)

Embedding(segment_id, model, vector, created_at) ==
  [segment_id |-> segment_id, model |-> model, vector |-> vector,
   created_at |-> created_at]

get_embedding(st, segment_id) ==
  FirstIndex({i \in 1..Len(st.embeddings) : st.embeddings[i].segment_id = segment_id})

\* INSERT OR REPLACE under PRIMARY KEY(segment_id)
add_embedding(st, segment_id, model, vector, now) ==
  LET Replace(existing, row) ==
        IF existing # 0
        THEN [st EXCEPT !.embeddings[existing] = row]
        ELSE [st EXCEPT !.embeddings = Append(@, row)]
  IN  Replace(get_embedding(st, segment_id), Embedding(segment_id, model, vector, now))

RECURSIVE bulk_add_embeddings(_, _, _, _, _)
bulk_add_embeddings(st, segment_ids, model, vectors, now) ==
  IF segment_ids = <<>> \/ vectors = <<>> THEN st
  ELSE bulk_add_embeddings(add_embedding(st, Head(segment_ids), model, Head(vectors), now),
                           Tail(segment_ids), model, Tail(vectors), now)

\* ... WHERE namespace = ? ORDER BY created_at DESC
list_irs(st, namespace) ==
  LET Ordered(rows) ==
        SortRows(rows, {p \in IndexPairs(rows) :
                          rows[p[1]].created_at > rows[p[2]].created_at})
  IN  Ordered(SelectRows(st.information_resources,
                {i \in 1..Len(st.information_resources) :
                   namespace # NoNamespace =>
                     st.information_resources[i].namespace = namespace}))

Dot(a, b) == a[1] * b[1] + a[2] * b[2]

Abs(x) == IF x < 0 THEN -x ELSE x

\* dot / (norm_query * norm_vector), kept exact as the fraction
\* sign(dot) * dot^2 / (|q|^2 * |v|^2), which orders as the cosine does
Cosine(q, v) == [num |-> Dot(q, v) * Abs(Dot(q, v)), den |-> Dot(q, q) * Dot(v, v)]

\* 0.0 / 0.0 of numpy floats: nan (with a RuntimeWarning), raised by nothing
IsNan(score) == score.den = 0

ScoreGreater(a, b) == a.den > 0 /\ b.den > 0 /\ a.num * b.den > b.num * a.den

\* list.sort(key=..., reverse=True) of CPython on a list shorter than 64: the
\* list is reversed, sorted upwards (count_run finds the run at the front,
\* binarysort inserts the rest) and reversed again.  a is a sequence of
\* indexes of rows, less the pairs <<i, j>> with key(row i) < key(row j); every
\* comparison with a nan key is false.
Reverse(a) == [k \in 1..Len(a) |-> a[Len(a) + 1 - k]]

\* count_run: the length of the run at the front of a, n of it counted so far
RECURSIVE CountRun(_, _, _, _)
CountRun(a, less, n, descending) ==
  IF n >= Len(a) THEN n
  ELSE IF (<<a[n + 1], a[n]>> \in less) = descending
       THEN CountRun(a, less, n + 1, descending)
       ELSE n

\* the binary search of binarysort for the place of pivot in a[l..r-1],
\* counted from 0
RECURSIVE BinarySearch(_, _, _, _, _)
BinarySearch(a, less, pivot, l, r) ==
  IF l >= r THEN l
  ELSE IF <<pivot, a[l + ((r - l) \div 2) + 1]>> \in less
       THEN BinarySearch(a, less, pivot, l, l + ((r - l) \div 2))
       ELSE BinarySearch(a, less, pivot, l + ((r - l) \div 2) + 1, r)

\* binarysort: the first start elements of a are in order
RECURSIVE BinarySort(_, _, _)
BinarySort(a, less, start) ==
  IF start >= Len(a) THEN a
  ELSE LET Insert(l) ==
             SubSeq(a, 1, l) \o <<a[start + 1]>> \o SubSeq(a, l + 1, start)
             \o SubSeq(a, start + 2, Len(a))
       IN  BinarySort(Insert(BinarySearch(a, less, a[start + 1], 0, start)), less,
                      start + 1)

ListSort(a, less) ==
  LET Run(n, descending) ==
        BinarySort(IF descending
                   THEN Reverse(SubSeq(a, 1, n)) \o SubSeq(a, n + 1, Len(a))
                   ELSE a,
                   less, n)
      Start(descending) == Run(CountRun(a, less, 2, descending), descending)
  IN  IF Len(a) < 2 THEN a ELSE Start(<<a[2], a[1]>> \in less)

\* a faulty sort: the list is left as it is
SortNothing(rows, less) == rows

SortReverse(rows, less) ==
  LET Sorted(a) == [k \in 1..Len(rows) |-> rows[a[k]]]
  IN  Sorted(Reverse(ListSort(Reverse([k \in 1..Len(rows) |-> k]), less)))

search_by_embedding(st, query_embedding, top_k, namespace) ==
  LET joined == {<<e, i, j>> \in (1..Len(st.embeddings))
                                  \X (1..Len(st.resource_segments))
                                  \X (1..Len(st.information_resources)) :
                   /\ st.embeddings[e].segment_id = st.resource_segments[i].id
                   /\ st.resource_segments[i].ir_id = st.information_resources[j].id
                   /\ (namespace # NoNamespace =>
                         st.information_resources[j].namespace = namespace)}
      results == [k \in 1..Cardinality(joined) |->
                    CHOOSE t \in joined :
                      Cardinality({u \in joined : u[1] <= t[1]}) = k]
      similarities ==
        [k \in 1..Len(results) |->
           LET e == st.embeddings[results[k][1]]
               rs == st.resource_segments[results[k][2]]
               ir == st.information_resources[results[k][3]]
           IN  [segment_id |-> e.segment_id, text |-> rs.text,
                provenance |-> rs.provenance, source_uri |-> ir.source_uri,
                namespace |-> ir.namespace,
                score |-> Cosine(query_embedding, e.vector)]]
      Top(sorted) == SubSeq(sorted, 1, Min(top_k, Len(sorted)))
      Ordered(rows) ==
        SortReverse(rows, {p \in IndexPairs(rows) :
                             ScoreGreater(rows[p[2]].score, rows[p[1]].score)})
  IN  Top(Ordered(similarities))

-----------------------------------------------------------------------------
(* ExactRecall: docmine/search/exact_recall.py *)

\* a faulty get_entity: without a type, the first entity of the namespace
get_entity_first(st, name, namespace, entity_type) ==
  IF entity_type # ""
  THEN LET i == get_entity_by_name(st, namespace, entity_type, name)
       IN  IF i = 0 THEN <<>> ELSE <<st.entities[i]>>
  ELSE LET First(entities) == SubSeq(entities, 1, Min(1, Len(entities)))
       IN  First(list_entities(st, namespace, ""))

\* a faulty get_entity: without a type, the aliases are not looked at
get_entity_by_name_only(st, name, namespace, entity_type) ==
  IF entity_type # ""
  THEN LET i == get_entity_by_name(st, namespace, entity_type, name)
       IN  IF i = 0 THEN <<>> ELSE <<st.entities[i]>>
  ELSE LET Matching(entities) ==
             SelectRows(entities, {i \in 1..Len(entities) : entities[i].name = name})
           First(matching) == SubSeq(matching, 1, Min(1, Len(matching)))
       IN  First(Matching(list_entities(st, namespace, "")))

\* a sequence holding the entity, empty for None
get_entity(st, name, namespace, entity_type) ==
  IF entity_type # ""
  THEN LET i == get_entity_by_name(st, namespace, entity_type, name)
       IN  IF i = 0 THEN <<>> ELSE <<st.entities[i]>>
  ELSE LET Matching(entities) ==
             SelectRows(entities,
               {i \in 1..Len(entities) :
                  \/ entities[i].name = name
                  \/ \E k \in 1..Len(entities[i].aliases) : entities[i].aliases[k] = name})
           First(matching) == SubSeq(matching, 1, Min(1, Len(matching)))
       IN  First(Matching(list_entities(st, namespace, "")))

get_all_segments_for_entity(st, entity_id) ==
  LET results == get_segments_for_entity(st, entity_id)
  IN  [k \in 1..Len(results) |->
         LET segment == results[k].segment
             link == results[k].link
             ir == get_ir_by_id(st, segment.ir_id)
         IN  [segment_id |-> segment.id, text |-> segment.text,
              provenance |-> segment.provenance,
              source_uri |-> IF ir # 0 THEN st.information_resources[ir].source_uri
                             ELSE "None",
              namespace |-> IF ir # 0 THEN st.information_resources[ir].namespace
                            ELSE "None",
              link_type |-> link.link_type, confidence |-> link.confidence]]

search_entity_by_name(st, name, namespace, entity_type) ==
  LET entity == get_entity(st, name, namespace, entity_type)
  IN  IF entity = <<>> THEN <<>> ELSE get_all_segments_for_entity(st, entity[1].id)

\* a faulty list_entities: the statistics are returned as collected, unsorted
recall_list_entities_unsorted(st, namespace, entity_type, min_mentions) ==
  LET entities == list_entities(st, namespace, entity_type)
      all == [k \in 1..Len(entities) |->
                [id |-> entities[k].id, type |-> entities[k].type,
                 name |-> entities[k].name, aliases |-> entities[k].aliases,
                 mention_count |-> Len(get_segments_for_entity(st, entities[k].id)),
                 metadata |-> entities[k].metadata]]
  IN  SelectRows(all, {k \in 1..Len(all) : all[k].mention_count >= min_mentions})

recall_list_entities(st, namespace, entity_type, min_mentions) ==
  LET entities == list_entities(st, namespace, entity_type)
      all == [k \in 1..Len(entities) |->
                [id |-> entities[k].id, type |-> entities[k].type,
                 name |-> entities[k].name, aliases |-> entities[k].aliases,
                 mention_count |-> Len(get_segments_for_entity(st, entities[k].id)),
                 metadata |-> entities[k].metadata]]
      Ordered(rows) ==
        SortRows(rows, {p \in IndexPairs(rows) :
                          rows[p[1]].mention_count > rows[p[2]].mention_count})
  IN  Ordered(SelectRows(all, {k \in 1..Len(all) : all[k].mention_count >= min_mentions}))

-----------------------------------------------------------------------------
(* KnowledgeIngestionPipeline: docmine/ingest/knowledge_pipeline.py *)

\* f"file://{file_path.absolute()}"
SourceUri(path) == "file://" \o path

\* existing.metadata.update(metadata); metadata is a set of <<key, value>>
MetadataUpdate(old, new) ==
  {p \in old : ~\E q \in new : q[1] = p[1]} \cup new

\* the result of _register_ir: the store after the call, the returned object
\* and the branch taken
Registered(r, kind) == [st |-> r.st, ir |-> r.ir, kind |-> kind]

\* the branches of _register_ir, existing the index found by get_ir_by_uri
register_ir_branch(st, existing, namespace, source_type, source_uri, content_hash, metadata, now) ==
  IF existing # 0
  THEN IF st.information_resources[existing].content_hash # content_hash
       THEN Registered(
              upsert_information_resource(st,
                [st.information_resources[existing] EXCEPT
                   !.content_hash = content_hash,
                   !.metadata = IF metadata # {} THEN MetadataUpdate(@, metadata)
                                ELSE @],
                now),
              "changed")
       ELSE [st |-> st, ir |-> st.information_resources[existing],
             kind |-> "unchanged"]
  ELSE Registered(
         upsert_information_resource([st EXCEPT !.uuids = @ + 1],
           InformationResource(Uuid4(st), namespace, source_type, source_uri,
                               content_hash, metadata, now, now),
           now),
         "new")

\* returns [st, ir, kind]: kind tells the branch taken
register_ir(st, path, namespace, source_type, metadata, content, now) ==
  register_ir_branch(st, get_ir_by_uri(st, namespace, SourceUri(path)), namespace,
                     source_type, SourceUri(path), generate_content_hash(content),
                     metadata, now)

\* the pairs (segment, extracted entity) in the order the two loops visit them
RECURSIVE ExtractedPairs(_)
ExtractedPairs(segments) ==
  IF segments = <<>> THEN <<>>
  ELSE LET extracted == extract(Head(segments).text)
       IN  [k \in 1..Len(extracted) |->
              [segment |-> Head(segments), ext_entity |-> extracted[k]]]
           \o ExtractedPairs(Tail(segments))

\* a faulty pass of the inner loop: an entity that exists already is not linked
link_step_new_only(acc, segment, ext_entity, found, namespace, now) ==
  LET Created(created) ==
        [st |-> created.st, all_entities |-> Append(acc.all_entities, created.entity),
         all_links |-> Append(acc.all_links,
                              EntityLink(segment.id, created.entity.id, "mentions",
                                         ext_entity.confidence, now))]
  IN  IF found = 0
      THEN Created(upsert_entity(
                     [acc.st EXCEPT !.uuids = @ + 1],
                     Entity(Uuid4(acc.st), namespace, ext_entity.type, ext_entity.name,
                            ext_entity.aliases, ext_entity.metadata, now, now),
                     now))
      ELSE acc

\* one pass of the inner loop of _extract_and_link_entities: acc is
\* [st, all_entities, all_links], found the index get_entity_by_name returned
link_step(acc, segment, ext_entity, found, namespace, now) ==
  LET Linked(st1, entity, all_entities) ==
        [st |-> st1, all_entities |-> all_entities,
         all_links |-> Append(acc.all_links,
                              EntityLink(segment.id, entity.id, "mentions",
                                         ext_entity.confidence, now))]
      Created(created) ==
        Linked(created.st, created.entity, Append(acc.all_entities, created.entity))
  IN  IF found = 0
      THEN Created(upsert_entity(
                     [acc.st EXCEPT !.uuids = @ + 1],
                     Entity(Uuid4(acc.st), namespace, ext_entity.type, ext_entity.name,
                            ext_entity.aliases, ext_entity.metadata, now, now),
                     now))
      ELSE Linked(acc.st, acc.st.entities[found], acc.all_entities)

\* the loops of _extract_and_link_entities over the extracted pairs
RECURSIVE link_loop(_, _, _, _)
link_loop(acc, pairs, namespace, now) ==
  IF pairs = <<>> THEN acc
  ELSE link_loop(
         link_step(acc, Head(pairs).segment, Head(pairs).ext_entity,
                   get_entity_by_name(acc.st, namespace, Head(pairs).ext_entity.type,
                                      Head(pairs).ext_entity.name),
                   namespace, now),
         Tail(pairs), namespace, now)

\* returns [st, all_entities, all_links]
extract_and_link_entities(st, segments, namespace, now) ==
  LET BulkAdd(r) ==
        [st |-> IF r.all_links # <<>> THEN bulk_add_entity_links(r.st, r.all_links)
                ELSE r.st,
         all_entities |-> r.all_entities, all_links |-> r.all_links]
  IN  BulkAdd(link_loop([st |-> st, all_entities |-> <<>>, all_links |-> <<>>],
                        ExtractedPairs(segments), namespace, now))

\* what one ingest_* call hands back and did: segmented tells whether the
\* segmenter was called, links are the links handed to the store
Ingested(st, ir, segments, entities, kind, segmented, links) ==
  [st |-> st, ir |-> ir, segments |-> segments, entities |-> entities,
   kind |-> kind, segmented |-> segmented, links |-> links]

\* steps 4 and 5 of ingest_text: store the segments, extract and link
ingest_text_store(reg, segments, namespace, now) ==
  LET Done(linked) ==
        Ingested(linked.st, reg.ir, segments, linked.all_entities, reg.kind, TRUE,
                 linked.all_links)
  IN  IF segments = <<>>
      THEN Ingested(reg.st, reg.ir, <<>>, <<>>, reg.kind, TRUE, <<>>)
      ELSE Done(extract_and_link_entities(bulk_upsert_segments(reg.st, segments),
                                          segments, namespace, now))

\* steps 2 and 3 of ingest_text: read the text and segment it
ingest_text_segment(reg, text, namespace, now) ==
  IF Strip(text) = <<>>
  THEN Ingested(reg.st, reg.ir, <<>>, <<>>, reg.kind, FALSE, <<>>)
  ELSE ingest_text_store(reg,
         segment_text(text, reg.ir.id, namespace, reg.ir.source_uri, now),
         namespace, now)

\* returns [st, ir, segments, entities, kind, segmented, links]
ingest_text(st, path, namespace, metadata, content, now) ==
  ingest_text_segment(register_ir(st, path, namespace, "txt", metadata, content, now),
                      content, namespace, now)

-----------------------------------------------------------------------------
(* KOSPipeline: docmine/kos_pipeline.py *)

\* SentenceTransformer.encode of one clause
PieceVec(w) ==
  CASE w = "S1" -> <<2, 0>>
    [] w = "S2" -> <<0, 1>>
    [] w = "S3" -> <<1, 1>>
    [] w = "S4" -> <<2, 1>>
    [] w = "Yes" -> <<0, 1>>
    [] w = "cont" -> <<1, 0>>
    [] OTHER -> <<0, 0>>

\* SentenceTransformer.encode of one text
RECURSIVE Encode(_)
Encode(text) ==
  IF text = <<>> THEN <<0, 0>>
  ELSE LET v == PieceVec(Head(text).w)
           r == Encode(Tail(text))
       IN  <<v[1] + r[1], v[2] + r[2]>>

\* a faulty _embed_segments: every segment is embedded again
embed_segments_all(st, segments, now) ==
  bulk_add_embeddings(st, [k \in 1..Len(segments) |-> segments[k].id],
                      EmbeddingModelName,
                      [k \in 1..Len(segments) |-> Encode(segments[k].text)], now)

embed_segments(st, segments, now) ==
  LET Store(to_embed) ==
        IF to_embed = <<>> THEN st
        ELSE bulk_add_embeddings(st,
               [k \in 1..Len(to_embed) |-> to_embed[k].id],
               EmbeddingModelName,
               [k \in 1..Len(to_embed) |-> Encode(to_embed[k].text)],
               now)
  IN  Store(SelectRows(segments, {k \in 1..Len(segments) :
                                    get_embedding(st, segments[k].id) = 0}))

\* ns = namespace or self.namespace
ResolveNamespace(namespace) ==
  IF namespace # NoNamespace THEN namespace ELSE DefaultNamespace

\* path.suffix.lower()
Suffix(path) ==
  CASE path \in {"a.txt", "c.txt"} -> ".txt" [] path = "b.csv" -> ".csv" [] OTHER -> ""

\* the content of a path that does not exist
NoFile == <<Tok("", 0)>>

\* Path(file_path).exists(), content what the file system holds at the path
PathExists(content) == content # NoFile

\* a call that raised: the store as the call left it, kind the exception
Raised(st, error) ==
  [st |-> st, segments |-> <<>>, entities |-> <<>>, kind |-> error,
   segmented |-> FALSE, links |-> <<>>]

\* the places where ingest_file can raise for a cause outside the program: the
\* read of the text after _register_ir (an I/O or decoding error), the
\* extraction after bulk_upsert_segments, the encoder in _embed_segments
FailurePoints == {"read", "link", "embed"}

\* the exception raised at a failure point
Failure(point) == "Exception in " \o point

IsError(kind) ==
  kind \in {"FileNotFoundError", "ValueError"} \cup {Failure(p) : p \in FailurePoints}

\* a faulty ingest_file: without the checks of the path and of the suffix
ingest_file_unchecked(st, path, namespace, metadata, content, now) ==
  LET Embed(r) ==
        [r EXCEPT !.st = IF r.segments # <<>> THEN embed_segments(r.st, r.segments, now)
                         ELSE r.st]
  IN  Embed(ingest_text(st, path, ResolveNamespace(namespace), metadata, content, now))

\* the result of ingest_text followed by the embedding step of ingest_file;
\* of the three supported suffixes the model has files of .txt only
ingest_file(st, path, namespace, metadata, content, now) ==
  LET Embed(r) ==
        [r EXCEPT !.st = IF r.segments # <<>> THEN embed_segments(r.st, r.segments, now)
                         ELSE r.st]
  IN  IF ~PathExists(content) THEN Raised(st, "FileNotFoundError")
      ELSE IF Suffix(path) # ".txt" THEN Raised(st, "ValueError")
      ELSE Embed(ingest_text(st, path, ResolveNamespace(namespace), metadata, content,
                             now))

\* ingest_file with an exception raised at the failure point (none for
\* "none"): every upsert before the point is committed, ingest_file logs and
\* raises again; a call that returns before it gets to the point succeeds
ingest_file_outcome(st, path, namespace, metadata, content, now, point) ==
  LET ns == ResolveNamespace(namespace)
      RaisedAt(st1, segments) ==
        [st |-> st1, segments |-> segments, entities |-> <<>>,
         kind |-> Failure(point), segmented |-> TRUE, links |-> <<>>]
      AfterLink(r) ==
        IF point = "embed" /\ r.segments # <<>>
        THEN [st |-> r.st, segments |-> r.segments, entities |-> r.entities,
              kind |-> Failure(point), segmented |-> TRUE, links |-> r.links]
        ELSE ingest_file(st, path, namespace, metadata, content, now)
      AfterStore(reg, segments) ==
        IF point = "link" /\ segments # <<>>
        THEN RaisedAt(bulk_upsert_segments(reg.st, segments), segments)
        ELSE AfterLink(ingest_text_segment(reg, content, ns, now))
      AfterRegister(reg) ==
        IF point = "read"
        THEN [RaisedAt(reg.st, <<>>) EXCEPT !.segmented = FALSE]
        ELSE AfterStore(reg,
               IF Strip(content) = <<>> THEN <<>>
               ELSE segment_text(content, reg.ir.id, ns, reg.ir.source_uri, now))
  IN  IF point = "none" \/ ~PathExists(content) \/ Suffix(path) # ".txt"
      THEN ingest_file(st, path, namespace, metadata, content, now)
      ELSE AfterRegister(register_ir(st, path, ns, "txt", metadata, content, now))

\* fnmatch of a path of the directory against the glob pattern
GlobMatches(pattern, path) ==
  CASE pattern = "*" -> TRUE
    [] pattern = "*.txt" -> Suffix(path) = ".txt"
    [] pattern = "*.pdf" -> Suffix(path) = ".pdf"
    [] OTHER -> FALSE

\* dir_path.rglob(pattern): the existing paths that match, as a set (the order
\* of the listing is the file system's)
Glob(fs, pattern) ==
  {path \in DOMAIN fs : PathExists(fs[path]) /\ GlobMatches(pattern, path)}

\* one pass of the loop of ingest_directory: acc is [st, total_segments,
\* outcomes], r what ingest_file did; an exception is logged and skipped
ingest_directory_step(acc, path, r) ==
  IF IsError(r.kind)
  THEN [acc EXCEPT !.outcomes = Append(@, [path |-> path, kind |-> r.kind, count |-> 0,
                                           ids |-> <<>>])]
  ELSE [st |-> r.st, total_segments |-> acc.total_segments + Len(r.segments),
        outcomes |-> Append(acc.outcomes,
                            [path |-> path, kind |-> r.kind, count |-> Len(r.segments),
                             ids |-> [k \in 1..Len(r.segments) |-> r.segments[k].id]])]

\* a faulty ingest_directory loop: without the try/except, the first
\* exception ends the batch
RECURSIVE ingest_directory_loop_raise(_, _, _, _, _)
ingest_directory_loop_raise(acc, file_paths, ns, fs, now) ==
  IF file_paths = <<>> \/ \E k \in 1..Len(acc.outcomes) : IsError(acc.outcomes[k].kind)
  THEN acc
  ELSE ingest_directory_loop_raise(
         ingest_directory_step(acc, Head(file_paths),
           ingest_file(acc.st, Head(file_paths), ns, {}, fs[Head(file_paths)], now)),
         Tail(file_paths), ns, fs, now)

\* the loop of ingest_directory over the files found
RECURSIVE ingest_directory_loop(_, _, _, _, _)
ingest_directory_loop(acc, file_paths, ns, fs, now) ==
  IF file_paths = <<>> THEN acc
  ELSE ingest_directory_loop(
         ingest_directory_step(acc, Head(file_paths),
           ingest_file(acc.st, Head(file_paths), ns, {}, fs[Head(file_paths)], now)),
         Tail(file_paths), ns, fs, now)

\* returns [st, total_segments, outcomes]; file_paths is the listing of the
\* directory, outcomes tells per file what ingest_file did
ingest_directory(st, file_paths, namespace, fs, now) ==
  ingest_directory_loop([st |-> st, total_segments |-> 0, outcomes |-> <<>>],
                        file_paths, ResolveNamespace(namespace), fs, now)

stats(st, namespace) ==
  LET ns == ResolveNamespace(namespace)
      entities == list_entities(st, ns, "")
  IN  [namespace |-> ns,
       information_resources |-> Len(list_irs(st, ns)),
       segments |-> count_segments(st, ns),
       entities |-> Len(entities),
       entity_types |-> Cardinality({entities[k].type : k \in 1..Len(entities)})]

\* the loop of reingest_changed over the rows read at its start:
\* acc is [st, reingested]
RECURSIVE reingest_loop(_, _, _, _, _)
reingest_loop(acc, irs, namespace, fs, now) ==
  IF irs = <<>> THEN acc
  ELSE LET ir == Head(irs)
           path == CHOOSE p \in DOMAIN fs : SourceUri(p) = ir.source_uri
           current_hash == generate_content_hash(fs[path])
           r == ingest_text(acc.st, path, namespace, ir.metadata, fs[path], now)
       IN  IF ~PathExists(fs[path])
           THEN reingest_loop(acc, Tail(irs), namespace, fs, now)
           ELSE IF current_hash # ir.content_hash
           THEN reingest_loop([st |-> IF Suffix(path) = ".txt" THEN r.st ELSE acc.st,
                               reingested |-> acc.reingested + 1],
                              Tail(irs), namespace, fs, now)
           ELSE reingest_loop(acc, Tail(irs), namespace, fs, now)

\* returns [st, reingested]
reingest_changed(st, namespace, fs, now) ==
  LET ns == ResolveNamespace(namespace)
  IN  reingest_loop([st |-> st, reingested |-> 0], list_irs(st, ns), ns, fs, now)

-----------------------------------------------------------------------------
(* The state machine *)

Paths == {"a.txt"}

Namespaces == {DefaultNamespace, "nsB"}

\* the namespace arguments of the calls: "" is namespace=None
NamespaceArgs == {NoNamespace, "nsB"}

\* the (namespace, metadata) arguments of the ingest_file calls
IngestArgs == {<<NoNamespace, {}>>, <<NoNamespace, {<<"tag", 1>>}>>, <<"nsB", {}>>}

\* the file of test_modified_file_reingest before and after it is modified
ContentA == <<Tok("S1", 0)>>
ContentB == <<Tok("S1", 0), Tok("S2", 1)>>
\* ContentA behind a blank line
ContentAw == <<Tok("S1", 2)>>
\* four sentences
ContentD == <<Tok("S3", 0), Tok("S2", 1), Tok("S1", 1), Tok("S3", 1)>>
\* the empty file
ContentZ == <<>>

Contents == {ContentA, ContentAw, ContentB, ContentD, ContentZ}

\* a file that names another strain, whose name starts with CCNA001
ContentE == <<Tok("S4", 0)>>

\* the directory with a file of an unsupported type next to a.txt
AllPaths == {"a.txt", "b.csv"}

\* what a path of the directory may hold: a.txt one of three texts, b.csv
\* one, or nothing
FileContents(path) ==
  IF Suffix(path) = ".txt" THEN {ContentA, ContentB, ContentE, NoFile}
  ELSE {ContentE, NoFile}

\* the glob patterns of ingest_directory; "*.pdf" is the default
Patterns == {"*.pdf", "*"}

\* the confidences a caller of add_entity_link passes, in percent
Confidences == {40}

\* the same with confidences outside [0.0, 1.0]
ConfidenceArgs == {40, 150}

\* the record of the latest call: what was called on which store, the branch
\* it took (kind), whether the same bytes had been ingested under the same
\* namespace and path before (repeat), what it returned (ret, count) and what
\* it did: segmenter called, numbers of segment, link and entity writes
Last(op, store, namespace, path, kind, repeat, ret, count, segmented, seg_writes, link_writes, entity_writes) ==
  [op |-> op, store |-> store, namespace |-> namespace, path |-> path, kind |-> kind,
   repeat |-> repeat, ret |-> ret, count |-> count, segmented |-> segmented,
   seg_writes |-> seg_writes, link_writes |-> link_writes,
   entity_writes |-> entity_writes]

\* the history of a store: the number of calls made on it, the ingest_file
\* calls done (with the ids they returned), the keys of the links ever added,
\* the entities ever minted and the keys of the links added by callers of
\* add_entity_link other than the pipeline
NoHist ==
  [calls |-> 0, done |-> {}, linked |-> {}, minted |-> {}, added |-> {}, failed |-> {}]

\* was (namespace, path, content) ingested before, according to the history h
IngestedBefore(h, namespace, path, content) ==
  \E d \in h.done : d.namespace = namespace /\ d.path = path /\ d.content = content

SegmentIds(segments) == [k \in 1..Len(segments) |-> segments[k].id]

Range(f) == {f[k] : k \in DOMAIN f}

InitStores(ids) ==
  /\ stores = [s \in ids |-> EmptyStore(s)]
  /\ clock = 0
  /\ last = Last("init", 0, "", "", "", FALSE, <<>>, 0, FALSE, 0, 0, 0)
  /\ hist = [s \in ids |-> NoHist]
  /\ runs = <<>>

Init == files \in [Paths -> Contents] /\ InitStores({1})

InitTwo == files \in [Paths -> Contents] /\ InitStores({1, 2})

InitFiles ==
  /\ files \in {f \in [AllPaths -> UNION {FileContents(p) : p \in AllPaths}] :
                  \A p \in AllPaths : f[p] \in FileContents(p)}
  /\ InitStores({1})

\* the orders in which a listing may return the paths
Orderings(paths) ==
  {order \in [1..Cardinality(paths) -> paths] :
     \A i, j \in 1..Cardinality(paths) : order[i] = order[j] => i = j}

\* the environment rewrites, creates or (c = NoFile) removes a file
WriteFile(p, c) ==
  /\ files[p] # c
  /\ files' = [files EXCEPT ![p] = c]
  /\ UNCHANGED <<stores, clock, last, hist, runs>>

\* KOSPipeline.ingest_file(file_path, namespace, metadata)
IngestFile(s, p, namespace, metadata) ==
  /\ clock < MaxClock
  /\ \E now \in {clock + 1}, ns \in {ResolveNamespace(namespace)} :
     \E r \in {ingest_file(stores[s], p, namespace, metadata, files[p], now)} :
         /\ stores' = [stores EXCEPT ![s] = r.st]
         /\ last' = Last("ingest_file", s, ns, p, r.kind,
                         IngestedBefore(hist[s], ns, p, files[p]),
                         SegmentIds(r.segments), Len(r.segments), r.segmented,
                         Len(r.segments), Len(r.links), Len(r.entities))
         /\ hist' = [hist EXCEPT
               ![s].calls = @ + 1,
               ![s].done = IF IsError(r.kind) THEN @
                           ELSE @ \cup {[namespace |-> ns, path |-> p,
                                          content |-> files[p],
                                          count |-> Len(r.segments),
                                          ids |-> SegmentIds(r.segments)]},
               ![s].linked = @ \cup {LinkKey(l) : l \in Range(r.links)},
               ![s].minted = @ \cup {[namespace |-> e.namespace, type |-> e.type,
                                      name |-> e.name, id |-> e.id] :
                                     e \in Range(r.entities)}]
  /\ clock' = clock + 1
  /\ UNCHANGED <<files, runs>>

\* KOSPipeline.reingest_changed(namespace)
ReingestChanged(s, namespace) ==
  /\ clock < MaxClock
  /\ \E now \in {clock + 1}, ns \in {ResolveNamespace(namespace)} :
     \E r \in {reingest_changed(stores[s], namespace, files, now)} :
     \E NewEntities \in {{e \in Range(r.st.entities) : e.created_at = now}},
        NewLinks \in {{l \in Range(r.st.segment_entity_links) : l.created_at = now}} :
         /\ stores' = [stores EXCEPT ![s] = r.st]
         /\ last' = Last("reingest_changed", s, ns, "", "", FALSE, <<>>, r.reingested,
                         FALSE, 0, 0, 0)
         /\ hist' = [hist EXCEPT
               ![s].calls = @ + 1,
               ![s].linked = @ \cup {LinkKey(l) : l \in NewLinks},
               ![s].minted = @ \cup {[namespace |-> e.namespace, type |-> e.type,
                                      name |-> e.name, id |-> e.id] : e \in NewEntities}]
  /\ clock' = clock + 1
  /\ UNCHANGED <<files, runs>>

\* KOSPipeline.ingest_directory(directory, pattern, namespace)
IngestDirectory(s, pattern, namespace) ==
  /\ clock < MaxClock
  /\ \E now \in {clock + 1}, ns \in {ResolveNamespace(namespace)} :
     \E file_paths \in Orderings(Glob(files, pattern)) :
     \E r \in {ingest_directory(stores[s], file_paths, namespace, files, now)} :
     \E NewEntities \in {{e \in Range(r.st.entities) : e.created_at = now}},
        NewLinks \in {{l \in Range(r.st.segment_entity_links) : l.created_at = now}} :
         /\ stores' = [stores EXCEPT ![s] = r.st]
         /\ last' = Last("ingest_directory", s, ns, pattern, "", FALSE, r.outcomes,
                         r.total_segments, FALSE, 0, 0, 0)
         /\ hist' = [hist EXCEPT
               ![s].calls = @ + 1,
               ![s].done = @ \cup {[namespace |-> ns, path |-> o.path,
                                    content |-> files[o.path], count |-> o.count,
                                    ids |-> o.ids] :
                                   o \in {x \in Range(r.outcomes) : ~IsError(x.kind)}},
               ![s].linked = @ \cup {LinkKey(l) : l \in NewLinks},
               ![s].minted = @ \cup {[namespace |-> e.namespace, type |-> e.type,
                                      name |-> e.name, id |-> e.id] : e \in NewEntities}]
  /\ clock' = clock + 1
  /\ UNCHANGED <<files, runs>>

\* a caller of the store: KnowledgeStore.upsert_information_resource(ir)
UpsertInformationResource(s, namespace, p, c, metadata) ==
  /\ clock < MaxClock
  /\ \E now \in {clock + 1}, st \in {stores[s]} :
     \E ir \in {InformationResource(Uuid4(st), namespace, "txt", SourceUri(p),
                                     generate_content_hash(c), metadata, now, now)} :
     \E r \in {upsert_information_resource([st EXCEPT !.uuids = @ + 1], ir, now)} :
         /\ stores' = [stores EXCEPT ![s] = r.st]
         /\ last' = Last("upsert_information_resource", s, namespace, p, "", FALSE, <<>>,
                         0, FALSE, 0, 0, 0)
         /\ hist' = [hist EXCEPT ![s].calls = @ + 1]
  /\ clock' = clock + 1
  /\ UNCHANGED <<files, runs>>

\* a caller of the store: KnowledgeStore.add_entity_link(EntityLink(...)), for
\* a stored segment and a stored entity; the construction of the link raises
\* ValueError when __post_init__ rejects the confidence, before the store is
\* called
AddEntityLink(s, i, j, confidence) ==
  /\ clock < MaxClock
  /\ i \in 1..Len(stores[s].resource_segments)
  /\ j \in 1..Len(stores[s].entities)
  /\ \E now \in {clock + 1}, st \in {stores[s]} :
     \E link \in {EntityLink(st.resource_segments[i].id, st.entities[j].id, "mentions",
                              confidence, now)} :
       IF ValidConfidence(confidence)
       THEN /\ stores' = [stores EXCEPT ![s] = add_entity_link(st, link)]
            /\ last' = Last("add_entity_link", s, "", "",
                            IF \E k \in 1..Len(st.segment_entity_links) :
                                 LinkKey(st.segment_entity_links[k]) = LinkKey(link)
                            THEN "replaced" ELSE "inserted",
                            FALSE, LinkKey(link), confidence, FALSE, 0, 1, 0)
            /\ hist' = [hist EXCEPT ![s].calls = @ + 1,
                                     ![s].linked = @ \cup {LinkKey(link)},
                                     ![s].added = @ \cup {LinkKey(link)}]
       ELSE /\ stores' = stores
            /\ last' = Last("add_entity_link", s, "", "", "ValueError", FALSE,
                            LinkKey(link), confidence, FALSE, 0, 0, 0)
            /\ hist' = [hist EXCEPT ![s].calls = @ + 1]
  /\ clock' = clock + 1
  /\ UNCHANGED <<files, runs>>

Next ==
  \/ \E p \in Paths, c \in Contents : WriteFile(p, c)
  \/ \E s \in DOMAIN stores, p \in Paths, a \in IngestArgs :
       IngestFile(s, p, a[1], a[2])
  \/ \E s \in DOMAIN stores, n \in NamespaceArgs : ReingestChanged(s, n)
  \/ \E s \in DOMAIN stores, n \in Namespaces, p \in Paths :
       UpsertInformationResource(s, n, p, ContentA, {})
  \/ \E s \in DOMAIN stores, c \in Confidences :
       \E i \in 1..Len(stores[s].resource_segments), j \in 1..Len(stores[s].entities) :
         AddEntityLink(s, i, j, c)

Spec == Init /\ [][Next]_vars

SpecTwo == InitTwo /\ [][Next]_vars

\* the same calls on a directory of two files, with files that may be
\* missing, ingest_directory and rejected confidences
NextFiles ==
  \/ \E p \in AllPaths : \E c \in FileContents(p) : WriteFile(p, c)
  \/ \E s \in DOMAIN stores, p \in AllPaths, n \in NamespaceArgs :
       IngestFile(s, p, n, {})
  \/ \E s \in DOMAIN stores, pattern \in Patterns, n \in NamespaceArgs :
       IngestDirectory(s, pattern, n)
  \/ \E s \in DOMAIN stores, n \in NamespaceArgs : ReingestChanged(s, n)
  \/ \E s \in DOMAIN stores, n \in Namespaces, p \in AllPaths :
       UpsertInformationResource(s, n, p, ContentA, {})
  \/ \E s \in DOMAIN stores, c \in ConfidenceArgs :
       \E i \in 1..Len(stores[s].resource_segments), j \in 1..Len(stores[s].entities) :
         AddEntityLink(s, i, j, c)

SpecFiles == InitFiles /\ [][NextFiles]_vars

\* The pipeline next to callers of the store, on two text files.
StorePaths == {"a.txt", "c.txt"}

\* the strain named twice in one segment
ContentR == <<Tok("S1", 0), Tok("S1", 1)>>
\* a sentence that runs over a line break
ContentW == <<Tok("S1", 0), Tok("cont", 2)>>
\* a file that names the gene only
ContentG == <<Tok("S3", 0)>>

StoreContents(path) ==
  IF path = "a.txt" THEN {ContentR, ContentW} ELSE {ContentG, ContentA}

\* the (type, name) of the entities a caller upserts, and the (aliases,
\* metadata) it gives them
EntityKeys == {<<"strain", "CCNA001">>, <<"gene", "BRCA1">>}

EntityDetails == {<<(<<>>), {}>>, <<(<<"CCNA0012">>), {<<"tag", 1>>}>>}

\* the vectors a caller of add_embedding stores
VectorArgs == {<<0, 0>>, <<0, 1>>}

InitStore ==
  /\ files \in {f \in [StorePaths -> UNION {StoreContents(p) : p \in StorePaths}] :
                  \A p \in StorePaths : f[p] \in StoreContents(p)}
  /\ InitStores({1})

\* a caller of the store: KnowledgeStore.upsert_segment(ResourceSegment(...))
\* with the id of the stored segment i, or (fresh) with the id of a segment
\* that is not stored
UpsertSegment(s, i, text, fresh) ==
  /\ clock < MaxClock
  /\ i \in 1..Len(stores[s].resource_segments)
  /\ \E now \in {clock + 1}, st \in {stores[s]}, row \in {stores[s].resource_segments[i]} :
     \E segment \in {ResourceSegment(
                       IF fresh
                       THEN generate_segment_id("caller", row.ir_id, <<0>>, text)
                       ELSE row.id,
                       row.ir_id, row.segment_index,
                       text, Provenance({"sentence"}, 0, "", 0, 7, 0),
                       generate_text_hash(text), now)} :
         /\ stores' = [stores EXCEPT ![s] = upsert_segment(st, segment)]
         /\ last' = Last("upsert_segment", s, "", "",
                         IF get_segment_by_id(st, segment.id) # 0 THEN "updated"
                         ELSE "inserted",
                         FALSE, segment, 0, FALSE, 1, 0, 0)
         /\ hist' = [hist EXCEPT ![s].calls = @ + 1]
  /\ clock' = clock + 1
  /\ UNCHANGED <<files, runs>>

\* a caller of the store: KnowledgeStore.upsert_entity(Entity(...))
UpsertEntity(s, namespace, type, name, aliases, metadata) ==
  /\ clock < MaxClock
  /\ \E now \in {clock + 1}, st \in {stores[s]} :
     \E entity \in {Entity(Uuid4(st), namespace, type, name, aliases, metadata, now,
                           now)} :
     \E r \in {upsert_entity([st EXCEPT !.uuids = @ + 1], entity, now)} :
         /\ stores' = [stores EXCEPT ![s] = r.st]
         /\ last' = Last("upsert_entity", s, namespace, "",
                         IF get_entity_by_name(st, namespace, type, name) # 0
                         THEN "updated" ELSE "inserted",
                         FALSE, r.entity, 0, FALSE, 0, 0, 1)
         /\ hist' = [hist EXCEPT ![s].calls = @ + 1]
  /\ clock' = clock + 1
  /\ UNCHANGED <<files, runs>>

\* a caller of the store: KnowledgeStore.add_embedding(segment_id, model,
\* vector) for the stored segment i
AddEmbedding(s, i, vector) ==
  /\ clock < MaxClock
  /\ i \in 1..Len(stores[s].resource_segments)
  /\ \E now \in {clock + 1}, st \in {stores[s]} :
         /\ stores' = [stores EXCEPT ![s] =
                         add_embedding(st, st.resource_segments[i].id,
                                       EmbeddingModelName, vector, now)]
         /\ last' = Last("add_embedding", s, "", "", "", FALSE, vector, 0, FALSE, 0,
                         0, 0)
         /\ hist' = [hist EXCEPT ![s].calls = @ + 1]
  /\ clock' = clock + 1
  /\ UNCHANGED <<files, runs>>

NextStore ==
  \/ \E p \in StorePaths : \E c \in StoreContents(p) : WriteFile(p, c)
  \/ \E s \in DOMAIN stores, p \in StorePaths, n \in NamespaceArgs :
       IngestFile(s, p, n, {})
  \/ \E s \in DOMAIN stores, text \in {ContentA, ContentW}, fresh \in BOOLEAN :
       \E i \in 1..Len(stores[s].resource_segments) : UpsertSegment(s, i, text, fresh)
  \/ \E s \in DOMAIN stores, n \in Namespaces, k \in EntityKeys, d \in EntityDetails :
       UpsertEntity(s, n, k[1], k[2], d[1], d[2])
  \/ \E s \in DOMAIN stores, v \in VectorArgs :
       \E i \in 1..Len(stores[s].resource_segments) : AddEmbedding(s, i, v)

SpecStore == InitStore /\ [][NextStore]_vars

\* Ingestions that fail: ingest_file raising at one of the failure points,
\* the file rewritten between the calls.

\* the number of calls of ingest_file
MaxCalls == 3

\* ingest_file(file_path), which raises at the failure point if it gets there
IngestAttempt(s, p, point) ==
  /\ clock < MaxCalls
  /\ \E now \in {clock + 1}, ns \in {DefaultNamespace} :
     \E r \in {ingest_file_outcome(stores[s], p, NoNamespace, {}, files[p], now, point)} :
         /\ stores' = [stores EXCEPT ![s] = r.st]
         /\ last' = Last("ingest_file", s, ns, p, r.kind,
                         IngestedBefore(hist[s], ns, p, files[p]),
                         SegmentIds(r.segments), Len(r.segments), r.segmented,
                         Len(r.segments), Len(r.links), Len(r.entities))
         /\ hist' = [hist EXCEPT
               ![s].calls = @ + 1,
               ![s].done = IF IsError(r.kind) THEN @
                           ELSE @ \cup {[namespace |-> ns, path |-> p,
                                          content |-> files[p],
                                          count |-> Len(r.segments),
                                          ids |-> SegmentIds(r.segments)]},
               ![s].failed = IF ~IsError(r.kind) THEN @
                             ELSE @ \cup {[call |-> hist[s].calls + 1,
                                            namespace |-> ns, path |-> p,
                                            content |-> files[p], kind |-> r.kind]},
               ![s].linked = @ \cup {LinkKey(l) : l \in Range(r.links)},
               ![s].minted = @ \cup {[namespace |-> e.namespace, type |-> e.type,
                                      name |-> e.name, id |-> e.id] :
                                     e \in Range(r.entities)}]
  /\ clock' = clock + 1
  /\ UNCHANGED <<files, runs>>

FailContents == {ContentA, ContentB, ContentE, ContentZ}

InitFail == files \in [Paths -> FailContents] /\ InitStores({1})

NextFail ==
  \/ \E p \in Paths, c \in FailContents : WriteFile(p, c)
  \/ \E p \in Paths, point \in FailurePoints \cup {"none"} : IngestAttempt(1, p, point)

SpecFail == InitFail /\ [][NextFail]_vars

-----------------------------------------------------------------------------
(* Two runs of ingest_file on one store, statement by statement.  runs     *)
(* holds what each run has in its local variables; every statement of the  *)
(* store is one step, a lookup and the write that follows it are two.      *)

RunIds == {1, 2}

RunPaths == {"a.txt", "c.txt"}

RunContents == {ContentA, ContentE}

\* the local variables of a run before ingest_file is called
Idle ==
  [pc |-> "idle", path |-> "", now |-> 0, ir |-> <<>>, found |-> 0, segments |-> <<>>,
   k |-> 0, pairs |-> <<>>, entity |-> <<>>, all_links |-> <<>>, to_embed |-> <<>>,
   uuids |-> 0, error |-> ""]

\* uuid.uuid4() called by a run
RunUuid4(r) == <<"uuid", "run", r, runs[r].uuids + 1>>

\* the INSERT of the run raised the constraint error of the store
Violated(run) == [run EXCEPT !.pc = "failed", !.error = "ConstraintException"]

\* a faulty INSERT INTO information_resources: INSERT OR IGNORE
insert_information_resource_or_ignore(st, ir) ==
  IF get_ir_by_id(st, ir.id) # 0 \/ get_ir_by_uri(st, ir.namespace, ir.source_uri) # 0
  THEN [st |-> st, raised |-> FALSE]
  ELSE [st |-> [st EXCEPT !.information_resources = Append(@, ir)], raised |-> FALSE]

\* a faulty INSERT INTO information_resources: a table without constraints
insert_information_resource_unconstrained(st, ir) ==
  [st |-> [st EXCEPT !.information_resources = Append(@, ir)], raised |-> FALSE]

\* INSERT INTO information_resources, under PRIMARY KEY(id) and
\* UNIQUE(namespace, source_uri): returns [st, raised]
insert_information_resource(st, ir) ==
  IF get_ir_by_id(st, ir.id) # 0 \/ get_ir_by_uri(st, ir.namespace, ir.source_uri) # 0
  THEN [st |-> st, raised |-> TRUE]
  ELSE [st |-> [st EXCEPT !.information_resources = Append(@, ir)], raised |-> FALSE]

\* INSERT INTO resource_segments, under PRIMARY KEY(id)
insert_segment(st, segment) ==
  IF get_segment_by_id(st, segment.id) # 0
  THEN [st |-> st, raised |-> TRUE]
  ELSE [st |-> [st EXCEPT !.resource_segments = Append(@, segment)], raised |-> FALSE]

\* INSERT INTO entities, under PRIMARY KEY(id) and UNIQUE(namespace, type, name)
insert_entity(st, entity) ==
  IF \/ get_entity_by_name(st, entity.namespace, entity.type, entity.name) # 0
     \/ \E i \in 1..Len(st.entities) : st.entities[i].id = entity.id
  THEN [st |-> st, raised |-> TRUE]
  ELSE [st |-> [st EXCEPT !.entities = Append(@, entity)], raised |-> FALSE]

InitRuns ==
  /\ files \in [RunPaths -> RunContents]
  /\ stores = [s \in {1} |-> EmptyStore(s)]
  /\ clock = 0
  /\ last = Last("init", 0, "", "", "", FALSE, <<>>, 0, FALSE, 0, 0, 0)
  /\ hist = [s \in {1} |-> NoHist]
  /\ runs = [r \in RunIds |-> Idle]

\* the run goes on with the local variables run, the store becomes st
Step(r, run, st) ==
  /\ runs' = [runs EXCEPT ![r] = run]
  /\ stores' = [stores EXCEPT ![1] = st]
  /\ UNCHANGED <<files, clock, last, hist>>

\* ingest_file(file_path) is called: the checks of the path and the suffix
Start(r, p) ==
  /\ runs[r].pc = "idle"
  /\ runs' = [runs EXCEPT ![r] =
       [@ EXCEPT !.path = p, !.now = clock + 1,
                 !.pc = IF PathExists(files[p]) /\ Suffix(p) = ".txt"
                        THEN "register" ELSE "failed"]]
  /\ clock' = clock + 1
  /\ UNCHANGED <<files, stores, last, hist>>

\* _register_ir: the hash of the bytes and the lookup by (namespace, uri)
Register(r) ==
  /\ runs[r].pc = "register"
  /\ \E existing \in {get_ir_by_uri(stores[1], DefaultNamespace, SourceUri(runs[r].path))},
        content_hash \in {generate_content_hash(files[runs[r].path])} :
       Step(r,
            IF existing = 0
            THEN [runs[r] EXCEPT
                    !.ir = InformationResource(RunUuid4(r), DefaultNamespace, "txt",
                                               SourceUri(runs[r].path), content_hash, {},
                                               runs[r].now, runs[r].now),
                    !.uuids = @ + 1, !.pc = "ir_lookup"]
            ELSE IF stores[1].information_resources[existing].content_hash # content_hash
            THEN [runs[r] EXCEPT
                    !.ir = [stores[1].information_resources[existing] EXCEPT
                              !.content_hash = content_hash],
                    !.pc = "ir_lookup"]
            ELSE [runs[r] EXCEPT !.ir = stores[1].information_resources[existing],
                                 !.pc = "read"],
            stores[1])

\* upsert_information_resource: existing = self.get_ir_by_uri(...)
IrLookup(r) ==
  /\ runs[r].pc = "ir_lookup"
  /\ Step(r, [runs[r] EXCEPT
                !.found = get_ir_by_uri(stores[1], runs[r].ir.namespace,
                                        runs[r].ir.source_uri),
                !.pc = "ir_write"],
          stores[1])

\* upsert_information_resource: the UPDATE of the row found, or the INSERT
IrWrite(r) ==
  /\ runs[r].pc = "ir_write"
  /\ \E run \in {runs[r]}, ins \in {insert_information_resource(stores[1], runs[r].ir)} :
       IF run.found # 0
       THEN Step(r, [run EXCEPT
                       !.ir = [@ EXCEPT
                                 !.updated_at = run.now,
                                 !.id = stores[1].information_resources[run.found].id,
                                 !.created_at =
                                   stores[1].information_resources[run.found].created_at],
                       !.pc = "read"],
                 [stores[1] EXCEPT !.information_resources[run.found] =
                    [@ EXCEPT !.content_hash = run.ir.content_hash,
                              !.metadata = run.ir.metadata,
                              !.updated_at = run.now]])
       ELSE Step(r, [run EXCEPT !.pc = IF ins.raised THEN "failed" ELSE "read",
                            !.error = IF ins.raised THEN "ConstraintException" ELSE @],
                 ins.st)

\* ingest_text: the text is read and segmented
ReadText(r) ==
  /\ runs[r].pc = "read"
  /\ \E run \in {runs[r]} :
     \E segments \in {IF Strip(files[run.path]) = <<>> THEN <<>>
                      ELSE segment_text(files[run.path], run.ir.id, DefaultNamespace,
                                        run.ir.source_uri, run.now)} :
       Step(r, [run EXCEPT !.segments = segments, !.k = 1,
                           !.pc = IF segments = <<>> THEN "done" ELSE "seg_lookup"],
            stores[1])

\* upsert_segment: existing = self.get_segment_by_id(segment.id)
SegLookup(r) ==
  /\ runs[r].pc = "seg_lookup"
  /\ Step(r, [runs[r] EXCEPT
                !.found = get_segment_by_id(stores[1], runs[r].segments[runs[r].k].id),
                !.pc = "seg_write"],
          stores[1])

\* where a run goes after its k-th segment is written
AfterSegment(run) ==
  IF run.k < Len(run.segments) THEN [run EXCEPT !.k = @ + 1, !.pc = "seg_lookup"]
  ELSE [run EXCEPT !.k = 1, !.pairs = ExtractedPairs(run.segments),
                   !.pc = IF ExtractedPairs(run.segments) = <<>> THEN "embed_lookup"
                          ELSE "ent_lookup"]

\* upsert_segment: the UPDATE of the row found, or the INSERT
SegWrite(r) ==
  /\ runs[r].pc = "seg_write"
  /\ \E run \in {runs[r]} :
     \E segment \in {run.segments[run.k]} :
     \E ins \in {insert_segment(stores[1], segment)} :
       IF run.found # 0
       THEN Step(r, AfterSegment(run),
                 [stores[1] EXCEPT !.resource_segments[run.found] =
                    [@ EXCEPT !.text = segment.text, !.provenance = segment.provenance,
                              !.text_hash = segment.text_hash]])
       ELSE Step(r, IF ins.raised THEN Violated(run) ELSE AfterSegment(run),
                 ins.st)

\* where a run goes after the link to the entity is appended to all_links
AfterEntity(run, entity) ==
  [run EXCEPT
     !.entity = entity,
     !.all_links = Append(@, EntityLink(run.pairs[run.k].segment.id, entity.id,
                                        "mentions", run.pairs[run.k].ext_entity.confidence,
                                        run.now)),
     !.k = @ + 1,
     !.pc = IF run.k < Len(run.pairs) THEN "ent_lookup" ELSE "links"]

\* _extract_and_link_entities: entity = self.store.get_entity_by_name(...)
EntLookup(r) ==
  /\ runs[r].pc = "ent_lookup"
  /\ \E run \in {runs[r]} :
     \E ext_entity \in {run.pairs[run.k].ext_entity} :
     \E found \in {get_entity_by_name(stores[1], DefaultNamespace, ext_entity.type,
                                      ext_entity.name)} :
       Step(r,
            IF found # 0 THEN AfterEntity(run, stores[1].entities[found])
            ELSE [run EXCEPT
                    !.entity = Entity(RunUuid4(r), DefaultNamespace, ext_entity.type,
                                      ext_entity.name, ext_entity.aliases,
                                      ext_entity.metadata, run.now, run.now),
                    !.uuids = @ + 1, !.pc = "ent_upsert"],
            stores[1])

\* upsert_entity: existing = self.get_entity_by_name(...)
EntUpsertLookup(r) ==
  /\ runs[r].pc = "ent_upsert"
  /\ Step(r, [runs[r] EXCEPT
                !.found = get_entity_by_name(stores[1], runs[r].entity.namespace,
                                             runs[r].entity.type, runs[r].entity.name),
                !.pc = "ent_write"],
          stores[1])

\* upsert_entity: the UPDATE of the row found, or the INSERT
EntWrite(r) ==
  /\ runs[r].pc = "ent_write"
  /\ \E run \in {runs[r]}, ins \in {insert_entity(stores[1], runs[r].entity)} :
       IF run.found # 0
       THEN Step(r, AfterEntity(run,
                      [run.entity EXCEPT
                         !.updated_at = run.now,
                         !.id = stores[1].entities[run.found].id,
                         !.created_at = stores[1].entities[run.found].created_at]),
                 [stores[1] EXCEPT !.entities[run.found] =
                    [@ EXCEPT !.aliases = run.entity.aliases,
                              !.metadata = run.entity.metadata,
                              !.updated_at = run.now]])
       ELSE Step(r, IF ins.raised THEN Violated(run) ELSE AfterEntity(run, run.entity),
                 ins.st)

\* _extract_and_link_entities: self.store.bulk_add_entity_links(all_links)
Links(r) ==
  /\ runs[r].pc = "links"
  /\ Step(r, [runs[r] EXCEPT !.pc = "embed_lookup"],
          bulk_add_entity_links(stores[1], runs[r].all_links))

\* _embed_segments: the segments without an embedding
EmbedLookup(r) ==
  /\ runs[r].pc = "embed_lookup"
  /\ \E to_embed \in {SelectRows(runs[r].segments,
                        {k \in 1..Len(runs[r].segments) :
                           get_embedding(stores[1], runs[r].segments[k].id) = 0})} :
       Step(r, [runs[r] EXCEPT !.to_embed = to_embed,
                               !.pc = IF to_embed = <<>> THEN "done" ELSE "embed_write"],
            stores[1])

\* _embed_segments: encode and bulk_add_embeddings
EmbedWrite(r) ==
  /\ runs[r].pc = "embed_write"
  /\ \E to_embed \in {runs[r].to_embed} :
       Step(r, [runs[r] EXCEPT !.pc = "done"],
            bulk_add_embeddings(stores[1],
              [k \in 1..Len(to_embed) |-> to_embed[k].id], EmbeddingModelName,
              [k \in 1..Len(to_embed) |-> Encode(to_embed[k].text)], runs[r].now))

\* an exception raised by the environment at any point of a run: what the
\* run has written stays written
Fail(r) ==
  /\ runs[r].pc \notin {"idle", "done", "failed"}
  /\ Step(r, [runs[r] EXCEPT !.pc = "failed", !.error = "Exception"], stores[1])

NextRuns ==
  \/ \E r \in RunIds, p \in RunPaths : Start(r, p)
  \/ \E r \in RunIds : Register(r)
  \/ \E r \in RunIds : IrLookup(r)
  \/ \E r \in RunIds : IrWrite(r)
  \/ \E r \in RunIds : ReadText(r)
  \/ \E r \in RunIds : SegLookup(r)
  \/ \E r \in RunIds : SegWrite(r)
  \/ \E r \in RunIds : EntLookup(r)
  \/ \E r \in RunIds : EntUpsertLookup(r)
  \/ \E r \in RunIds : EntWrite(r)
  \/ \E r \in RunIds : Links(r)
  \/ \E r \in RunIds : EmbedLookup(r)
  \/ \E r \in RunIds : EmbedWrite(r)
  \/ \E r \in RunIds : Fail(r)

SpecRuns == InitRuns /\ [][NextRuns]_vars

\* The segmenters on their own.  files holds the document handed to the
\* segmenter, [kind, doc]: a sequence of pages [page_num, text], the lines of
\* a markdown text, or a flat text.
MaxPages == 2

MaxLines == 5

\* the short page has no sentence of MinSentenceLen characters
PageTexts == {ContentA, ContentD, ContentZ, <<Tok("Yes", 0)>>}

PageValues == {[page_num |-> n, text |-> t] : n \in 1..MaxPages, t \in PageTexts}

LineValues ==
  {HeadingLine("Intro"), HeadingLine("Methods"), TextLine(ContentA), TextLine(ContentD),
   TextLine(<<>>)}

SeqsUpTo(values, n) == UNION {[1..k -> values] : k \in 0..n}

SegmenterInputs ==
  {[kind |-> "pages", doc |-> d] : d \in SeqsUpTo(PageValues, MaxPages)}
  \cup {[kind |-> "markdown", doc |-> d] : d \in SeqsUpTo(LineValues, MaxLines)}
  \cup {[kind |-> "text", doc |-> d] : d \in Contents \cup {ContentE}}

InitSegmenter == files \in SegmenterInputs /\ InitStores({1})

\* DeterministicSegmenter.segment_pages / segment_markdown / segment_text on
\* the document; last.ret is the list returned
Segment(kind, op, segments) ==
  /\ files.kind = kind
  /\ last' = Last(op, 0, DefaultNamespace, "a.txt", kind, FALSE, segments,
                  Len(segments), TRUE, 0, 0, 0)
  /\ UNCHANGED <<files, stores, clock, hist, runs>>

SegmentPages ==
  Segment("pages", "segment_pages",
          segment_pages(files.doc, "ir", DefaultNamespace, SourceUri("a.txt"), 1))

SegmentMarkdown ==
  Segment("markdown", "segment_markdown",
          segment_markdown(files.doc, "ir", DefaultNamespace, SourceUri("a.txt"), 1))

SegmentText ==
  Segment("text", "segment_text",
          segment_text(files.doc, "ir", DefaultNamespace, SourceUri("a.txt"), 1))

NextSegmenter == SegmentPages \/ SegmentMarkdown \/ SegmentText

SpecSegmenter == InitSegmenter /\ [][NextSegmenter]_vars

-----------------------------------------------------------------------------
(* Queries used by the properties *)

\* a step is a call on a store (WriteFile leaves the clock alone)
IsCall == clock' # clock

\* the ids of the segments stored for the resource (namespace, path)
StoredSegmentIds(st, namespace, path) ==
  LET Ids(ir) ==
        IF ir = 0 THEN {}
        ELSE Range(SegmentIds(get_segments_for_ir(st, st.information_resources[ir].id)))
  IN  Ids(get_ir_by_uri(st, namespace, SourceUri(path)))

\* the names and types a caller may ask about
EntityNames == {"CCNA001", "BRCA1"}
EntityTypeArgs == {"", "strain", "gene", "protein"}

\* the query embeddings of search
QueryVectors == {<<1, 0>>, <<1, 1>>}

\* the top_k of search
TopKs == {1, 5}

\* everything the namespace-scoped queries of KOSPipeline return under namespace
NamespaceView(st, namespace) ==
  [count |-> count_segments(st, namespace),
   search |-> [q \in QueryVectors, k \in TopKs |->
                 search_by_embedding(st, q, k, namespace)],
   search_entity |-> [n \in EntityNames, t \in EntityTypeArgs |->
                        search_entity_by_name(st, n, namespace, t)],
   list_entities |-> recall_list_entities(st, namespace, "", 1),
   stats |-> stats(st, namespace)]

\* the names a caller of search_entity may ask about
RecallNames == {"CCNA001", "BRCA1", "CCNA0012"}

\* name in text, for the text of a segment
TextContains(text, name) ==
  \E k \in 1..Len(text) : \E m \in Range(Mentions(text[k].w)) : NameContains(m, name)

\* the extractor recognises the name in the text
TextMentions(text, name) == \E x \in Range(extract(text)) : x.name = name

\* the segments stored under the namespace
SegmentsOfNamespace(st, namespace) ==
  {seg \in Range(st.resource_segments) :
     \E ir \in Range(st.information_resources) :
       ir.id = seg.ir_id /\ ir.namespace = namespace}

\* the ids of the segments of the namespace in which the extractor
\* recognises the name
MentioningIds(st, name, namespace) ==
  {seg.id : seg \in {x \in SegmentsOfNamespace(st, namespace) :
                       TextMentions(x.text, name)}}

\* the ids of the segments of the namespace whose text contains the name
ContainingIds(st, name, namespace) ==
  {seg.id : seg \in {x \in SegmentsOfNamespace(st, namespace) :
                       TextContains(x.text, name)}}

\* the ids of the segments search_entity(name, namespace=namespace) returns
RecalledIds(st, name, namespace) ==
  {x.segment_id : x \in Range(search_entity_by_name(st, name, namespace, ""))}

RECURSIVE SumCounts(_, _)
SumCounts(st, namespaces) ==
  IF namespaces = {} THEN 0
  ELSE LET n == CHOOSE x \in namespaces : TRUE
       IN  count_segments(st, n) + SumCounts(st, namespaces \ {n})

-----------------------------------------------------------------------------
(* C1: idempotent ingestion.  Whenever ingest_file(F, N) is called on a    *)
(* store into which the same bytes of F were ingested under N before, the  *)
(* call leaves count_segments(N) as it was and returns the segment count   *)
(* the earlier call returned.                                              *)
C1_IdempotentIngestion ==
  [][(IsCall /\ last'.op = "ingest_file" /\ last'.repeat) =>
       /\ count_segments(stores'[last'.store], last'.namespace)
            = count_segments(stores[last'.store], last'.namespace)
       /\ \A d \in hist[last'.store].done :
            (d.namespace = last'.namespace /\ d.path = last'.path
               /\ d.content = files[d.path])
            => last'.count = d.count]_vars

\* a repeated ingestion of a file that yields segments has happened
C1_Witness ==
  /\ last.op = "ingest_file" /\ last.repeat /\ last.count >= 1
  /\ count_segments(stores[last.store], last.namespace) = last.count

(* C2: segments are replaced on re-segmentation.  After ingest_file(F, N)  *)
(* found F's bytes changed, the segments stored for F's resource are       *)
(* exactly the segments the call produced from the new content.            *)
C2_SegmentsReplaced ==
  (last.op = "ingest_file" /\ last.kind = "changed") =>
    StoredSegmentIds(stores[last.store], last.namespace, last.path) = Range(last.ret)

(* C3: exact-recall completeness.  In every reachable state, for every     *)
(* link ever added to a store, get_all_segments_for_entity of the link's   *)
(* entity returns an entry for the link's segment and link type.           *)
C3_ExactRecallComplete ==
  \A s \in DOMAIN stores : \A key \in hist[s].linked :
    \E x \in Range(get_all_segments_for_entity(stores[s], key[2])) :
      x.segment_id = key[1] /\ x.link_type = key[3]

\* an entity is linked to two segments and a later call has been made
C3_Witness ==
  \E s \in DOMAIN stores :
    /\ hist[s].calls = 2
    /\ \E e \in Range(stores[s].entities) :
         Len(get_all_segments_for_entity(stores[s], e.id)) >= 2

(* C4: namespace isolation.  An ingest_file or reingest_changed call on    *)
(* namespace A leaves what count_segments, search, search_entity,          *)
(* list_entities and stats return under every other namespace B as it was; *)
(* and count_segments over all namespaces is the sum of the per-namespace  *)
(* counts.                                                                 *)
C4_NamespaceIsolation ==
  [][/\ (IsCall /\ last'.op \in {"ingest_file", "reingest_changed"}) =>
          \A B \in Namespaces \ {last'.namespace} :
            NamespaceView(stores'[last'.store], B)
              = NamespaceView(stores[last'.store], B)
     /\ \A s \in DOMAIN stores :
          count_segments(stores'[s], NoNamespace) = SumCounts(stores'[s], Namespaces)
    ]_vars

\* the same content has been ingested under both namespaces
C4_Witness ==
  /\ last.op = "ingest_file"
  /\ \A n \in Namespaces : count_segments(stores[last.store], n) >= 1
  /\ \E d, e \in hist[last.store].done :
       d.namespace # e.namespace /\ d.content = e.content

(* C5: cheap idempotent path.  When ingest_file finds the resource with    *)
(* the hash of the file's current bytes, it does not call the segmenter    *)
(* and writes no segment, entity or link.                                  *)
C5_CheapIdempotentPath ==
  (last.op = "ingest_file" /\ last.kind = "unchanged") =>
    /\ ~last.segmented
    /\ last.seg_writes = 0 /\ last.entity_writes = 0 /\ last.link_writes = 0


(* C6: InformationResource upsert is in place.  Under any sequence of     *)
(* ingest_file, reingest_changed and upsert_information_resource calls     *)
(* there is at most one row per (namespace, source_uri), and every call    *)
(* leaves each row it finds where it was, with its id, created_at,         *)
(* namespace, source_type and source_uri: only content_hash, metadata and  *)
(* updated_at may differ.                                                  *)
C6_UpsertInPlace ==
  [][\A s \in DOMAIN stores :
       LET old == stores[s].information_resources
           new == stores'[s].information_resources
       IN  /\ \A i, j \in 1..Len(new) :
                (new[i].namespace = new[j].namespace
                   /\ new[i].source_uri = new[j].source_uri) => i = j
           /\ Len(new) >= Len(old)
           /\ \A i \in 1..Len(old) :
                new[i] = [old[i] EXCEPT !.content_hash = new[i].content_hash,
                                        !.metadata = new[i].metadata,
                                        !.updated_at = new[i].updated_at]
    ]_vars

\* a known key has been upserted: its row carries a later updated_at
C6_Witness ==
  \E s \in DOMAIN stores : \E r \in Range(stores[s].information_resources) :
    /\ r.updated_at > r.created_at
    /\ Len(stores[s].information_resources) = 1

\* the entity of the history m is the row of its key, and the segment g is
\* linked to it
LinkedToMinted(st, g, m) ==
  /\ \E e \in Range(st.entities) : e.id = m.id /\ e.namespace = m.namespace
                                    /\ e.type = m.type /\ e.name = m.name
  /\ \E l \in Range(st.segment_entity_links) :
       LinkKey(l) = <<g.id, m.id, "mentions">>

(* C7: entity uniqueness.  In every reachable state there is at most one   *)
(* entity row per (namespace, type, name), no key has been minted an id    *)
(* twice, every link points to an id that was minted, and every stored     *)
(* segment is linked, for each entity its text mentions, to the id first   *)
(* minted for that entity's key in the namespace of the segment's          *)
(* resource.                                                               *)
C7_EntityUniqueness ==
  \A s \in DOMAIN stores :
    LET st == stores[s]
    IN  /\ \A i, j \in 1..Len(st.entities) :
             (st.entities[i].namespace = st.entities[j].namespace
                /\ st.entities[i].type = st.entities[j].type
                /\ st.entities[i].name = st.entities[j].name) => i = j
        /\ \A m, n \in hist[s].minted :
             (m.namespace = n.namespace /\ m.type = n.type /\ m.name = n.name)
             => m.id = n.id
        /\ \A l \in Range(st.segment_entity_links) :
             \E m \in hist[s].minted : m.id = l.entity_id
        /\ \A g \in Range(st.resource_segments) :
             \A ir \in Range(st.information_resources) :
               ir.id = g.ir_id =>
                 \A x \in Range(extract(g.text)) :
                   \E m \in hist[s].minted :
                     /\ m.namespace = ir.namespace /\ m.type = x.type
                     /\ m.name = x.name
                     /\ LinkedToMinted(st, g, m)

\* a link written by a later call points to an entity minted by an earlier one
C7_Witness ==
  \E s \in DOMAIN stores :
    \E e \in Range(stores[s].entities), l \in Range(stores[s].segment_entity_links) :
      /\ l.entity_id = e.id /\ l.created_at > e.created_at
      /\ last.op = "ingest_file" /\ last.link_writes >= 1

\* the mention count of every entity of the store
MentionCounts(st) ==
  [k \in 1..Len(st.entities) |-> Len(get_segments_for_entity(st, st.entities[k].id))]

(* C8: link uniqueness.  After every call there is at most one link row    *)
(* per (segment_id, entity_id, link_type); add_entity_link on a key that   *)
(* is present leaves the number of links as it was and the row of the key  *)
(* with the confidence just passed; and ingest_file of bytes ingested      *)
(* before leaves every entity's mention count as it was.                   *)
C8_LinkUniqueness ==
  [][/\ \A s \in DOMAIN stores :
          \A i, j \in 1..Len(stores'[s].segment_entity_links) :
            LinkKey(stores'[s].segment_entity_links[i])
              = LinkKey(stores'[s].segment_entity_links[j]) => i = j
     /\ (IsCall /\ last'.op = "add_entity_link") =>
          LET old == stores[last'.store].segment_entity_links
              new == stores'[last'.store].segment_entity_links
          IN  /\ (\E l \in Range(old) : LinkKey(l) = last'.ret) => Len(new) = Len(old)
              /\ \E l \in Range(new) :
                   LinkKey(l) = last'.ret /\ l.confidence = last'.count
     /\ (IsCall /\ last'.op = "ingest_file" /\ last'.repeat) =>
          /\ Len(stores'[last'.store].segment_entity_links)
               = Len(stores[last'.store].segment_entity_links)
          /\ MentionCounts(stores'[last'.store]) = MentionCounts(stores[last'.store])
    ]_vars

\* add_entity_link has replaced a link the pipeline wrote by one of a
\* confidence the pipeline never writes
C8_Witness ==
  /\ last.op = "add_entity_link" /\ last.kind = "replaced"
  /\ \E l \in Range(stores[last.store].segment_entity_links) :
       LinkKey(l) = last.ret /\ l.confidence = last.count
                             /\ l.confidence < MinConfidence

(* C9: determinism across stores.  ingest_file of the same path and bytes  *)
(* under the same namespace returns the same list of segment ids on every  *)
(* store, whatever the store holds and whenever it is called; and on two   *)
(* stores that were empty before it, the segments stored for the resource, *)
(* in segment_index order, carry the same ids.                             *)
C9_DeterminismAcrossStores ==
  \A s, t \in DOMAIN stores : \A d \in hist[s].done, e \in hist[t].done :
    (d.namespace = e.namespace /\ d.path = e.path /\ d.content = e.content) =>
      /\ d.ids = e.ids
      /\ (hist[s].calls = 1 /\ hist[t].calls = 1) =>
           LET Stored(st) ==
                 SegmentIds(get_segments_for_ir(st, st.information_resources[1].id))
           IN  /\ Stored(stores[s]) = Stored(stores[t])
               /\ Stored(stores[s]) = d.ids

\* two stores hold the same two-segment file under resource ids that differ
C9_Witness ==
  /\ hist[1].calls = 1 /\ hist[2].calls = 1
  /\ \E d \in hist[1].done \cap hist[2].done : Len(d.ids) = 2
  /\ stores[1].information_resources[1].id # stores[2].information_resources[1].id
  /\ stores[1].resource_segments[1].created_at
       # stores[2].resource_segments[1].created_at

\* content is prior followed by more
Appended(prior, content) ==
  Len(content) > Len(prior) /\ SubSeq(content, 1, Len(prior)) = prior

(* C10: change sensitivity.  When ingest_file(F, N) finds the bytes of F   *)
(* changed since F was ingested into N, the set of segments stored for F's *)
(* resource differs from the set stored before the call, and when the new  *)
(* bytes are the bytes of an earlier ingestion with content appended, the  *)
(* call returns a larger segment count than that ingestion did.            *)
C10_ChangeSensitivity ==
  [][(IsCall /\ last'.op = "ingest_file" /\ last'.kind = "changed"
        /\ \E d \in hist[last'.store].done :
             d.namespace = last'.namespace /\ d.path = last'.path) =>
       /\ StoredSegmentIds(stores'[last'.store], last'.namespace, last'.path)
            # StoredSegmentIds(stores[last'.store], last'.namespace, last'.path)
       /\ \A d \in hist[last'.store].done :
            (d.namespace = last'.namespace /\ d.path = last'.path
               /\ Appended(d.content, files[d.path]))
            => last'.count > d.count]_vars

(* C11: end-to-end recall by name.  In every reachable state, for every    *)
(* namespace N and name E, search_entity(E, namespace=N) without a type    *)
(* returns every segment stored in N in whose text the extractor           *)
(* recognises E, also when E exists as entities of several types.          *)
C11_RecallByName ==
  \A s \in DOMAIN stores : \A N \in Namespaces : \A E \in RecallNames :
    MentioningIds(stores[s], E, N) \subseteq RecalledIds(stores[s], E, N)

\* the statement with literal substrings: every segment stored in N whose
\* text contains E is returned
C11_RecallBySubstring ==
  \A s \in DOMAIN stores : \A N \in Namespaces : \A E \in RecallNames :
    ContainingIds(stores[s], E, N) \subseteq RecalledIds(stores[s], E, N)

\* a name that exists as entities of two types is recalled from two segments
C11_Witness ==
  \E s \in DOMAIN stores : \E N \in Namespaces : \E E \in RecallNames :
    /\ Cardinality({e.type : e \in {x \in Range(stores[s].entities) :
                                      x.namespace = N /\ x.name = E}}) >= 2
    /\ Cardinality(RecalledIds(stores[s], E, N)) >= 2
    /\ MentioningIds(stores[s], E, N) = RecalledIds(stores[s], E, N)

LargeTopK == 10

\* the segment is linked to an entity of the namespace with this name
LinkedToName(st, segment_id, name, namespace) ==
  \E l \in Range(st.segment_entity_links) : \E e \in Range(st.entities) :
    /\ l.segment_id = segment_id /\ l.entity_id = e.id
    /\ e.name = name /\ e.namespace = namespace

\* the number of results of search(query, top_k, namespace) that are linked
\* to the name
SemanticLinkedCount(results, st, name, namespace) ==
  Cardinality({k \in 1..Len(results) :
                 LinkedToName(st, results[k].segment_id, name, namespace)})

(* C13: exact-recall superset.  In every reachable state, for every name E *)
(* and namespace N, search_entity(E, N) returns at least as many segments  *)
(* as search(E, top_k=10, N) returns segments that are linked to E.        *)
C13_ExactRecallSuperset ==
  \A s \in DOMAIN stores : \A N \in Namespaces : \A E \in EntityNames :
    \A q \in QueryVectors :
      Len(search_entity_by_name(stores[s], E, N, ""))
        >= SemanticLinkedCount(search_by_embedding(stores[s], q, LargeTopK, N),
                               stores[s], E, N)

\* Path(ir.source_uri.replace("file://", ""))
IrPath(ir) == CHOOSE p \in AllPaths : SourceUri(p) = ir.source_uri

\* the IRs of the namespace whose backing file exists and differs in hash
ChangedIrs(st, namespace, fs) ==
  {ir \in Range(st.information_resources) :
     /\ ir.namespace = namespace
     /\ PathExists(fs[IrPath(ir)])
     /\ generate_content_hash(fs[IrPath(ir)]) # ir.content_hash}

\* the pipeline has run for the IR on the content: the stored hash is the
\* content's and the segments of the content are stored
PipelineRan(st, ir, content) ==
  /\ \E row \in Range(st.information_resources) :
       row.id = ir.id /\ row.content_hash = generate_content_hash(content)
  /\ \A seg \in Range(segment_text(content, ir.id, ir.namespace, ir.source_uri, 0)) :
       get_segment_by_id(st, seg.id) # 0

\* the IR row and the segments of the IR are the same in both stores
Untouched(st, st2, ir) ==
  /\ ir \in Range(st2.information_resources)
  /\ {seg \in Range(st.resource_segments) : seg.ir_id = ir.id}
       = {seg \in Range(st2.resource_segments) : seg.ir_id = ir.id}

\* what C14 states of a reingest_changed(namespace) call that returned count
\* and took the store from st to st2
ReingestedExactly(st, st2, namespace, fs, count, now) ==
  /\ count = Cardinality(ChangedIrs(st, namespace, fs))
  /\ \A ir \in ChangedIrs(st, namespace, fs) : PipelineRan(st2, ir, fs[IrPath(ir)])
  /\ \A ir \in Range(st.information_resources) \ ChangedIrs(st, namespace, fs) :
       Untouched(st, st2, ir)
  /\ reingest_changed(st2, namespace, fs, now + 1).reingested = 0

(* C14: reingest_changed(N) re-runs the pipeline exactly for the IRs of N  *)
(* whose backing file exists and whose content hash differs from the       *)
(* stored one, leaves the IRs with a missing file, the unchanged IRs and   *)
(* the IRs of other namespaces untouched, returns the number of IRs        *)
(* re-ingested, and returns 0 when called again at once.                   *)
C14_ReingestChanged ==
  [][(IsCall /\ last'.op = "reingest_changed") =>
       ReingestedExactly(stores[last'.store], stores'[last'.store], last'.namespace,
                         files, last'.count, clock')]_vars

\* the segment has an embedding row and search with a large top_k returns it
Embedded(st, segment_id, namespace) ==
  /\ get_embedding(st, segment_id) # 0
  /\ \A q \in QueryVectors :
       \E x \in Range(search_by_embedding(st, q, LargeTopK, namespace)) :
         x.segment_id = segment_id

\* every segment the pipeline persists for the content of the IR is embedded
SegmentsEmbedded(st, ir, content) ==
  \A seg \in Range(segment_text(content, ir.id, ir.namespace, ir.source_uri, 0)) :
    get_segment_by_id(st, seg.id) # 0 => Embedded(st, seg.id, ir.namespace)

(* C15: every processed document ends in Embedded.  After                  *)
(* reingest_changed(N) returns, every segment it persisted for a           *)
(* re-ingested IR has an embedding row and is returned by search, as after *)
(* ingest_file.                                                            *)
C15_ReingestEndsEmbedded ==
  [][(IsCall /\ last'.op = "reingest_changed") =>
       \A ir \in ChangedIrs(stores[last'.store], last'.namespace, files) :
         SegmentsEmbedded(stores'[last'.store], ir, files[IrPath(ir)])]_vars

\* the same after ingest_file: every segment the call returned is embedded
C15_IngestFileEndsEmbedded ==
  (last.op = "ingest_file" /\ ~IsError(last.kind)) =>
    \A id \in Range(last.ret) : Embedded(stores[last.store], id, last.namespace)

\* the number of segments the files of paths that can be ingested yield
RECURSIVE DirectoryTotal(_, _, _)
DirectoryTotal(fs, paths, namespace) ==
  IF paths = {} THEN 0
  ELSE LET p == CHOOSE x \in paths : TRUE
       IN  (IF Suffix(p) = ".txt"
            THEN Len(segment_text(fs[p], 0, namespace, SourceUri(p), 0)) ELSE 0)
           + DirectoryTotal(fs, paths \ {p}, namespace)

\* the file at path is ingested in the store under the namespace
FileIngested(st, path, namespace, fs, existing) ==
  existing # 0 /\ PipelineRan(st, st.information_resources[existing], fs[path])

\* what C16 states of an ingest_directory call over the files found that
\* took the store from st to st2
BatchCompleted(st, st2, found, namespace, fs, outcomes, total) ==
  /\ {outcomes[k].path : k \in 1..Len(outcomes)} = found
  /\ \A p \in found :
       Suffix(p) = ".txt" =>
         FileIngested(st2, p, namespace, fs, get_ir_by_uri(st2, namespace, SourceUri(p)))
  /\ \A seg \in Range(st.resource_segments) : get_segment_by_id(st2, seg.id) # 0
  /\ total = DirectoryTotal(fs, found, namespace)

(* C16: ingest_directory never aborts on a per-file failure.  Whatever     *)
(* file of the batch raises, every file found is tried, every file that    *)
(* can be ingested is ingested, what was stored before stays stored, the   *)
(* call returns normally and the total is the sum of the segment counts of *)
(* the files that succeeded.                                               *)
C16_DirectoryContinues ==
  [][(IsCall /\ last'.op = "ingest_directory") =>
       /\ ~IsError(last'.kind)
       /\ BatchCompleted(stores[last'.store], stores'[last'.store],
                         Glob(files, last'.path), last'.namespace, files,
                         last'.ret, last'.count)]_vars

\* a batch in which a file failed and a later file was ingested
C16_Witness ==
  /\ last.op = "ingest_directory"
  /\ \E i, j \in 1..Len(last.ret) :
       /\ i < j /\ IsError(last.ret[i].kind)
       /\ ~IsError(last.ret[j].kind) /\ last.ret[j].count >= 1
       /\ last.count = last.ret[j].count
       /\ \A id \in Range(last.ret[j].ids) :
            get_segment_by_id(stores[last.store], id) # 0

\* the suffixes ingest_file accepts
SupportedSuffixes == {".pdf", ".md", ".txt"}

(* C17: ingest_file fails with FileNotFoundError when the path does not    *)
(* exist and with ValueError (unsupported type) when the suffix is none of *)
(* .pdf, .md, .txt; in both cases no table of the store changes; in every  *)
(* other case it does not fail.                                            *)
C17_IngestFileErrors ==
  [][(IsCall /\ last'.op = "ingest_file") =>
       /\ ~PathExists(files[last'.path]) =>
            last'.kind = "FileNotFoundError" /\ stores' = stores
       /\ (PathExists(files[last'.path]) /\ Suffix(last'.path) \notin SupportedSuffixes)
            => last'.kind = "ValueError" /\ stores' = stores
       /\ (PathExists(files[last'.path]) /\ Suffix(last'.path) \in SupportedSuffixes)
            => ~IsError(last'.kind)]_vars

\* ingest_file has failed on a path that was ingested before and removed
\* since, and the store still holds the segments of the earlier ingestion
C17_Witness ==
  /\ last.op = "ingest_file" /\ last.kind = "FileNotFoundError"
  /\ ~PathExists(files[last.path])
  /\ StoredSegmentIds(stores[last.store], last.namespace, last.path) # {}

\* ingest_file has failed on a file of an unsupported type while the store
\* holds segments
C17_WitnessUnsupported ==
  /\ last.op = "ingest_file" /\ last.kind = "ValueError"
  /\ stores[last.store].resource_segments # <<>>

(* C18: confidence bound.  A call that constructs an EntityLink with a     *)
(* confidence outside [0.0, 1.0] fails with ValueError and writes nothing, *)
(* the confidences the extractor computes for its ExtractedEntity objects  *)
(* are within the bounds, and so every stored link has a confidence within *)
(* [0.0, 1.0] (0..100 percent).                                            *)
C18_ConfidenceBound ==
  [][/\ (IsCall /\ last'.op = "add_entity_link"
            /\ (last'.count < 0 \/ last'.count > 100))
          => last'.kind = "ValueError" /\ stores' = stores
     /\ \A s \in DOMAIN stores : \A l \in Range(stores'[s].segment_entity_links) :
          0 <= l.confidence /\ l.confidence <= 100
     /\ \A t \in Range(PatternTypes) : \A n \in RecallNames :
          0 <= calculate_confidence(t, n) /\ calculate_confidence(t, n) <= 100]_vars

\* a link with a confidence above 1.0 has been rejected by a store that
\* holds links
C18_Witness ==
  /\ last.op = "add_entity_link" /\ last.kind = "ValueError" /\ last.count > 100
  /\ stores[last.store].segment_entity_links # <<>>
  /\ \A l \in Range(stores[last.store].segment_entity_links) : l.confidence <= 100

\* the calls that ingest
IngestOps == {"ingest_file", "ingest_directory", "reingest_changed"}

(* C19: embeddings are created only for segments that lack one and are     *)
(* never regenerated by ingestion.  An ingesting call leaves every         *)
(* embedding row (model, vector, created_at) as it was and adds rows only  *)
(* for segment ids that had none, and no store ever holds two embedding    *)
(* rows of one segment_id.                                                 *)
C19_EmbeddingsKept ==
  [][/\ (IsCall /\ last'.op \in IngestOps) =>
          /\ \A e \in Range(stores[last'.store].embeddings) :
               e \in Range(stores'[last'.store].embeddings)
          /\ \A e \in Range(stores'[last'.store].embeddings) :
               e \notin Range(stores[last'.store].embeddings)
                 => get_embedding(stores[last'.store], e.segment_id) = 0
     /\ \A s \in DOMAIN stores : \A i, j \in 1..Len(stores'[s].embeddings) :
          stores'[s].embeddings[i].segment_id = stores'[s].embeddings[j].segment_id
            => i = j]_vars

\* ingest_file of a changed file has returned a segment that had its
\* embedding from an earlier call
C19_Witness ==
  /\ last.op = "ingest_file" /\ last.kind = "changed"
  /\ \E id \in Range(last.ret) : \E e \in Range(stores[last.store].embeddings) :
       e.segment_id = id /\ e.created_at < clock

\* get_segments_for_ir of the resource (namespace, path): the ids in
\* ascending segment_index order, existing the index get_ir_by_uri returned
OrderedSegmentIds(st, existing) ==
  IF existing = 0 THEN <<>>
  ELSE SegmentIds(get_segments_for_ir(st, st.information_resources[existing].id))

(* C20: document order is recoverable from storage.  In every reachable    *)
(* state the stored segments of an IR have pairwise distinct segment_index *)
(* values, and after ingest_file reading the segments of the resource in   *)
(* ascending segment_index order yields the segments of the content just   *)
(* ingested, in their order.                                               *)
C20_DocumentOrder ==
  /\ \A s \in DOMAIN stores : \A i, j \in 1..Len(stores[s].resource_segments) :
       (/\ stores[s].resource_segments[i].ir_id = stores[s].resource_segments[j].ir_id
        /\ stores[s].resource_segments[i].segment_index
             = stores[s].resource_segments[j].segment_index) => i = j
  /\ (last.op = "ingest_file" /\ ~IsError(last.kind)) =>
       OrderedSegmentIds(stores[last.store],
                         get_ir_by_uri(stores[last.store], last.namespace,
                                       SourceUri(last.path))) = last.ret

-----------------------------------------------------------------------------
(* C21: segment_index over the entire resource.  For each of the three     *)
(* segmenters (pages, markdown, flat text) the segment_index values of the *)
(* returned list are strictly increasing in list order, and list order is  *)
(* input order: the texts of the segments, read in list order, are the     *)
(* sentences of the document in the order of its pages, paragraphs and     *)
(* sentences, and the (paragraph, sentence) positions recorded in the      *)
(* provenance increase along the list.                                     *)

\* the sentences of the pages, page after page
RECURSIVE PageSentences(_)
PageSentences(pages) ==
  IF pages = <<>> THEN <<>>
  ELSE split_sentences(Head(pages).text) \o PageSentences(Tail(pages))

\* the paragraphs of a markdown text: the non-blank lines between headings;
\* cur holds the lines of the paragraph being read
RECURSIVE Paragraphs(_, _)
Paragraphs(lines, cur) ==
  IF lines = <<>> THEN (IF cur = <<>> THEN <<>> ELSE <<cur>>)
  ELSE IF Head(lines).heading
       THEN (IF cur = <<>> THEN <<>> ELSE <<cur>>) \o Paragraphs(Tail(lines), <<>>)
       ELSE Paragraphs(Tail(lines),
                       IF Head(lines).text = <<>> THEN cur
                       ELSE Append(cur, Head(lines).text))

RECURSIVE ParagraphSentences(_)
ParagraphSentences(paragraphs) ==
  IF paragraphs = <<>> THEN <<>>
  ELSE split_sentences(JoinSpace(Head(paragraphs)))
       \o ParagraphSentences(Tail(paragraphs))

\* the sentences of the document in input order
DocumentSentences(input) ==
  CASE input.kind = "pages" -> PageSentences(input.doc)
    [] input.kind = "markdown" -> ParagraphSentences(Paragraphs(input.doc, <<>>))
    [] OTHER -> split_sentences(input.doc)

\* position k of the list lies before position l in the document, by the
\* paragraph and sentence numbers of the provenance
ProvenanceBefore(segments, k, l) ==
  \/ segments[k].provenance.para < segments[l].provenance.para
  \/ /\ segments[k].provenance.para = segments[l].provenance.para
     /\ segments[k].provenance.sentence < segments[l].provenance.sentence

SegmenterOps == {"segment_pages", "segment_markdown", "segment_text"}

C21_SegmentIndexIncreasing ==
  last.op \in SegmenterOps =>
    /\ \A k, l \in 1..Len(last.ret) :
         k < l => /\ last.ret[k].segment_index < last.ret[l].segment_index
                  /\ last.op # "segment_pages" => ProvenanceBefore(last.ret, k, l)
    /\ JoinSpace([k \in 1..Len(last.ret) |-> last.ret[k].text])
         = JoinSpace(DocumentSentences(files))

\* a markdown text with segments in three paragraphs: the index of the third
\* paragraph's segment is past its position in the list
C21_Witness ==
  /\ last.op = "segment_markdown"
  /\ \E k \in 1..Len(last.ret) :
       last.ret[k].provenance.para = 2 /\ last.ret[k].segment_index > k - 1

-----------------------------------------------------------------------------
(* C22: listEntities.  list_entities(namespace, type, min_mentions) returns *)
(* exactly the entities of the namespace (and of the type, when one is      *)
(* given) whose mention count is at least min_mentions, each once and with  *)
(* its count, sorted by mention count descending, entities of equal count   *)
(* in the order in which the store lists them (ORDER BY name); no entity of *)
(* another type or namespace appears.                                       *)

\* the min_mentions a caller passes; 1 is the default
MinMentionArgs == {0, 1, 2}

\* the number of stored segments linked to the entity
LinkedSegmentCount(st, entity_id) ==
  Cardinality({seg.id : seg \in {x \in Range(st.resource_segments) :
                 \E l \in Range(st.segment_entity_links) :
                   l.segment_id = x.id /\ l.entity_id = entity_id}})

\* the entities list_entities has to return
ListedEntities(st, namespace, entity_type, min_mentions) ==
  {e \in Range(st.entities) :
     /\ e.namespace = namespace
     /\ entity_type # "" => e.type = entity_type
     /\ LinkedSegmentCount(st, e.id) >= min_mentions}

ListedInOrder(st, listed, expected) ==
  /\ Len(listed) = Cardinality(expected)
  /\ {x.id : x \in Range(listed)} = {e.id : e \in expected}
  /\ \A k \in 1..Len(listed) :
       /\ listed[k].mention_count = LinkedSegmentCount(st, listed[k].id)
       /\ \E e \in expected : e.id = listed[k].id /\ e.name = listed[k].name
                                /\ e.type = listed[k].type
  /\ \A k, l \in 1..Len(listed) :
       k < l => \/ listed[k].mention_count > listed[l].mention_count
                \/ /\ listed[k].mention_count = listed[l].mention_count
                   /\ ~NameBefore(listed[l].name, listed[k].name)

C22_ListEntities ==
  \A s \in DOMAIN stores, n \in Namespaces, t \in EntityTypeArgs, m \in MinMentionArgs :
    ListedInOrder(stores[s], recall_list_entities(stores[s], n, t, m),
                  ListedEntities(stores[s], n, t, m))

\* the strain, mentioned once, is listed in front of the gene, which a
\* caller upserted and no segment mentions, and min_mentions = 1 leaves the
\* gene out
C22_Witness ==
  \E s \in DOMAIN stores :
    /\ Len(recall_list_entities(stores[s], DefaultNamespace, "", 0)) >= 2
    /\ recall_list_entities(stores[s], DefaultNamespace, "", 0)[1].name = "CCNA001"
    /\ \E k \in 2..Len(recall_list_entities(stores[s], DefaultNamespace, "", 0)) :
         recall_list_entities(stores[s], DefaultNamespace, "", 0)[k].name = "BRCA1"
    /\ \A x \in Range(recall_list_entities(stores[s], DefaultNamespace, "", 1)) :
         x.name = "CCNA001"

-----------------------------------------------------------------------------
(* C23: mention counts.  After two files were ingested into one namespace  *)
(* of an empty store, one mentioning only entity X and one mentioning only *)
(* entity Y, list_entities returns exactly X and Y, and the mention_count  *)
(* of each equals the number of occurrences of its name in the segments of *)
(* both files, an entity named several times in one segment counted once   *)
(* per occurrence.                                                          *)

\* the number of occurrences of the name in the text
RECURSIVE Occurrences(_, _)
Occurrences(text, name) ==
  IF text = <<>> THEN 0
  ELSE Cardinality({k \in 1..Len(Mentions(Head(text).w)) :
                      Mentions(Head(text).w)[k] = name})
       + Occurrences(Tail(text), name)

RECURSIVE OccurrencesIn(_, _)
OccurrencesIn(segments, name) ==
  IF segments = {} THEN 0
  ELSE LET seg == CHOOSE x \in segments : TRUE
       IN  Occurrences(seg.text, name) + OccurrencesIn(segments \ {seg}, name)

\* the names the text mentions
NamesOf(text) == {n \in RecallNames : Occurrences(text, n) > 0}

\* the two calls made on the store ingested a.txt and c.txt into the
\* namespace, and each of the files mentions one entity only, not the same
TwoFilesIngested(s, namespace) ==
  /\ hist[s].calls = 2
  /\ \A p \in StorePaths :
       \E d \in hist[s].done : d.namespace = namespace /\ d.path = p
                                /\ d.content = files[p]
  /\ \A p \in StorePaths : Cardinality(NamesOf(files[p])) = 1
  /\ NamesOf(files["a.txt"]) # NamesOf(files["c.txt"])

C23_MentionCounts ==
  \A s \in DOMAIN stores, n \in Namespaces :
    TwoFilesIngested(s, n) =>
      /\ {x.name : x \in Range(recall_list_entities(stores[s], n, "", 1))}
           = UNION {NamesOf(files[p]) : p \in StorePaths}
      /\ \A x \in Range(recall_list_entities(stores[s], n, "", 1)) :
           x.mention_count = OccurrencesIn(SegmentsOfNamespace(stores[s], n), x.name)

-----------------------------------------------------------------------------
(* C24: semantic search.  Where every similarity is defined (no vector of  *)
(* zero norm, the case of C25), search_by_embedding(query, top_k,          *)
(* namespace) returns min(top_k, number of embedded segments of the        *)
(* namespace) results, each an embedded segment of that namespace with its *)
(* cosine as score and none twice, in non-increasing score order, results  *)
(* of equal score in the order of the stored embeddings, and no omitted    *)
(* segment scores higher than a returned one.                              *)

ZeroNorm(v) == Dot(v, v) = 0

\* the embeddings, by index, of the segments of the namespace
Candidates(st, namespace) ==
  {e \in 1..Len(st.embeddings) :
     \E seg \in SegmentsOfNamespace(st, namespace) :
       seg.id = st.embeddings[e].segment_id}

ScoresDefined(st, q, cand) ==
  ~ZeroNorm(q) /\ \A e \in cand : ~ZeroNorm(st.embeddings[e].vector)

\* the index of the embedding of the result x
EmbeddingOf(st, x) ==
  CHOOSE e \in 1..Len(st.embeddings) : st.embeddings[e].segment_id = x.segment_id

SameScore(a, b) == ~ScoreGreater(a, b) /\ ~ScoreGreater(b, a)

SearchResultRight(st, results, q, top_k, namespace, cand) ==
  /\ Len(results) = Min(top_k, Cardinality(cand))
  /\ \A i \in 1..Len(results) :
       /\ results[i].namespace = namespace
       /\ \E e \in cand :
            /\ st.embeddings[e].segment_id = results[i].segment_id
            /\ results[i].score = Cosine(q, st.embeddings[e].vector)
  /\ \A i, j \in 1..Len(results) :
       i < j => /\ results[i].segment_id # results[j].segment_id
                /\ ~ScoreGreater(results[j].score, results[i].score)
                /\ SameScore(results[i].score, results[j].score)
                     => EmbeddingOf(st, results[i]) < EmbeddingOf(st, results[j])
  /\ \A e \in cand :
       (\A i \in 1..Len(results) : results[i].segment_id # st.embeddings[e].segment_id)
         => \A i \in 1..Len(results) :
              ~ScoreGreater(Cosine(q, st.embeddings[e].vector), results[i].score)

-----------------------------------------------------------------------------
(* C25: vectors of zero norm.  When the query vector or the stored vector  *)
(* of a result has zero norm, the score of that result is 0, and the       *)
(* results are in non-increasing score order with that score counted as 0. *)

\* the query vectors of search, with the zero vector
ZeroQueryVectors == QueryVectors \cup {<<0, 0>>}

Zero == [num |-> 0, den |-> 1]

\* the score as the claim defines it
ClaimedScore(q, v) == IF ZeroNorm(q) \/ ZeroNorm(v) THEN Zero ELSE Cosine(q, v)

ZeroNormScoresZero(st, results, q) ==
  /\ \A i \in 1..Len(results) :
       ZeroNorm(q) \/ ZeroNorm(st.embeddings[EmbeddingOf(st, results[i])].vector)
         => ~IsNan(results[i].score) /\ results[i].score.num = 0
  /\ \A i, j \in 1..Len(results) :
       i < j =>
         ~ScoreGreater(
            ClaimedScore(q, st.embeddings[EmbeddingOf(st, results[j])].vector),
            ClaimedScore(q, st.embeddings[EmbeddingOf(st, results[i])].vector))

C25_ZeroNormSimilarity ==
  \A s \in DOMAIN stores, q \in ZeroQueryVectors, n \in Namespaces :
    ZeroNormScoresZero(stores[s], search_by_embedding(stores[s], q, LargeTopK, n), q)

-----------------------------------------------------------------------------
(* C26: upsert_segment in place.  A call of upsert_segment with the id of  *)
(* a stored segment overwrites the text, provenance and text_hash of that  *)
(* row and leaves its created_at, every other row and the number of rows   *)
(* as they were; and after any call of upsert_segment, a second call with  *)
(* the same segment leaves the store as the first call left it.            *)

\* row i of the segments of st took the text, provenance and text_hash of
\* segment and kept the rest; nothing else of the table changed
OverwrittenInPlace(st, st2, i, segment) ==
  /\ Len(st2.resource_segments) = Len(st.resource_segments)
  /\ st2.resource_segments[i].text = segment.text
  /\ st2.resource_segments[i].provenance = segment.provenance
  /\ st2.resource_segments[i].text_hash = segment.text_hash
  /\ st2.resource_segments[i].created_at = st.resource_segments[i].created_at
  /\ st2.resource_segments[i].id = st.resource_segments[i].id
  /\ \A j \in 1..Len(st.resource_segments) :
       j # i => st2.resource_segments[j] = st.resource_segments[j]

StoredSegmentRows(st, segment_id) ==
  {j \in 1..Len(st.resource_segments) : st.resource_segments[j].id = segment_id}

C26_UpsertSegmentInPlace ==
  [][last'.op = "upsert_segment" =>
       /\ \A i \in StoredSegmentRows(stores[last'.store], last'.ret.id) :
            OverwrittenInPlace(stores[last'.store], stores'[last'.store], i, last'.ret)
       /\ upsert_segment(stores'[last'.store], last'.ret) = stores'[last'.store]
       /\ Cardinality(StoredSegmentRows(stores'[last'.store], last'.ret.id)) = 1]_vars

\* a stored segment was upserted with another text: the row holds the new
\* text and the old created_at
C26_Witness ==
  /\ last.op = "upsert_segment"
  /\ last.kind = "updated"
  /\ \E row \in Range(stores[last.store].resource_segments) :
       /\ row.id = last.ret.id
       /\ row.text = last.ret.text
       /\ normalize_text(row.text) # normalize_text(ContentR)
       /\ row.created_at < last.ret.created_at

-----------------------------------------------------------------------------
(* C27: upsert_entity merges.  A call of upsert_entity for a (namespace,   *)
(* type, name) that is stored keeps the aliases and the metadata keys      *)
(* stored before the call next to the new ones, sets updated_at to the     *)
(* time of the call and keeps id and created_at.                           *)

Keys(metadata) == {p[1] : p \in metadata}

MergedInto(old, new, entity, now) ==
  /\ Range(old.aliases) \cup Range(entity.aliases) \subseteq Range(new.aliases)
  /\ Keys(old.metadata) \cup Keys(entity.metadata) \subseteq Keys(new.metadata)
  /\ new.updated_at = now
  /\ new.id = old.id
  /\ new.created_at = old.created_at

C27_UpsertEntityMerges ==
  [][last'.op = "upsert_entity" =>
       \A i \in 1..Len(stores[last'.store].entities) :
         /\ stores[last'.store].entities[i].namespace = last'.ret.namespace
         /\ stores[last'.store].entities[i].type = last'.ret.type
         /\ stores[last'.store].entities[i].name = last'.ret.name
         => MergedInto(stores[last'.store].entities[i],
                       stores'[last'.store].entities[i], last'.ret, clock')]_vars

\* what the code does keep: id and created_at, with updated_at bumped and
\* the aliases and metadata of the call stored
C27_UpsertEntityOverwrites ==
  [][last'.op = "upsert_entity" =>
       \A i \in 1..Len(stores[last'.store].entities) :
         /\ stores[last'.store].entities[i].namespace = last'.ret.namespace
         /\ stores[last'.store].entities[i].type = last'.ret.type
         /\ stores[last'.store].entities[i].name = last'.ret.name
         => /\ stores'[last'.store].entities[i].aliases = last'.ret.aliases
            /\ stores'[last'.store].entities[i].metadata = last'.ret.metadata
            /\ stores'[last'.store].entities[i].updated_at = clock'
            /\ stores'[last'.store].entities[i].id
                 = stores[last'.store].entities[i].id
            /\ stores'[last'.store].entities[i].created_at
                 = stores[last'.store].entities[i].created_at]_vars

-----------------------------------------------------------------------------
(* C28: getEntity.  With a type, get_entity(name, namespace, type) returns *)
(* the entity stored under exactly (namespace, type, name), or nothing     *)
(* when there is none.  Without a type it returns nothing when no entity   *)
(* of the namespace has the name as its name or among its aliases, and     *)
(* otherwise such an entity, the first in the order in which the store     *)
(* lists the entities of the namespace (ORDER BY name).  It never returns  *)
(* an entity of another namespace.                                         *)

\* the names a caller may ask about: those of the texts and one of no text
LookupNames == RecallNames \cup {"NONEXISTENT999"}

\* the entities of the namespace that have the name as name or alias
NamedOrAliased(st, name, namespace) ==
  {e \in Range(st.entities) :
     /\ e.namespace = namespace
     /\ e.name = name \/ \E k \in 1..Len(e.aliases) : e.aliases[k] = name}

\* the entities stored under (namespace, type, name)
NamedExactly(st, name, namespace, entity_type) ==
  {e \in Range(st.entities) :
     e.namespace = namespace /\ e.type = entity_type /\ e.name = name}

GetEntityRight(found, matching) ==
  /\ Len(found) <= 1
  /\ found = <<>> <=> matching = {}
  /\ \A k \in 1..Len(found) :
       /\ found[k] \in matching
       /\ \A e \in matching : ~NameBefore(e.name, found[k].name)

C28_GetEntity ==
  \A s \in DOMAIN stores, name \in LookupNames, n \in Namespaces, t \in EntityTypeArgs :
    /\ GetEntityRight(get_entity(stores[s], name, n, t),
                      IF t # "" THEN NamedExactly(stores[s], name, n, t)
                      ELSE NamedOrAliased(stores[s], name, n))
    /\ \A k \in 1..Len(get_entity(stores[s], name, n, t)) :
         get_entity(stores[s], name, n, t)[k].namespace = n

\* two entities of one namespace have the alias CCNA0012 and none has that
\* name: the lookup without a type returns the gene, which the store lists
\* first, and the lookup with a type returns nothing
C28_Witness ==
  \E s \in DOMAIN stores, n \in Namespaces :
    /\ Cardinality(NamedOrAliased(stores[s], "CCNA0012", n)) = 2
    /\ get_entity(stores[s], "CCNA0012", n, "") # <<>>
    /\ get_entity(stores[s], "CCNA0012", n, "")[1].name = "BRCA1"
    /\ get_entity(stores[s], "CCNA0012", n, "gene") = <<>>

-----------------------------------------------------------------------------
(* C29: unknown names.  In every reachable state, the empty store          *)
(* included, search_entity on a name that is neither the name nor an alias *)
(* of an entity of the namespace returns the empty list, and get_entity    *)
(* returns nothing, whatever type is passed.                               *)

C29_UnknownEntity ==
  \A s \in DOMAIN stores, name \in LookupNames, n \in Namespaces, t \in EntityTypeArgs :
    NamedOrAliased(stores[s], name, n) = {} =>
      /\ search_entity_by_name(stores[s], name, n, t) = <<>>
      /\ get_entity(stores[s], name, n, t) = <<>>

\* the store holds entities and linked segments, one of them under a name
\* that the other namespace does not know
C29_Witness ==
  \E s \in DOMAIN stores :
    /\ NamedOrAliased(stores[s], "CCNA001", DefaultNamespace) # {}
    /\ stores[s].segment_entity_links # <<>>
    /\ NamedOrAliased(stores[s], "CCNA001", "nsB") = {}
    /\ NamedOrAliased(stores[s], "BRCA1", "nsB") # {}
    /\ search_entity_by_name(stores[s], "CCNA001", "nsB", "") = <<>>

-----------------------------------------------------------------------------
(* C30: stored text is canonical.  The text of every stored segment equals *)
(* its normalized form (no leading or trailing whitespace, no whitespace   *)
(* run other than a single space), and its text_hash is the hash of        *)
(* exactly the stored text.                                                *)

C30_StoredTextNormalized ==
  \A s \in DOMAIN stores : \A seg \in Range(stores[s].resource_segments) :
    /\ seg.text = normalize_text(seg.text)
    /\ seg.text_hash = Sha256(seg.text)

\* the same of the segments the pipeline alone wrote
C30_IngestedTextNormalized ==
  last.op = "ingest_file" =>
    \A seg \in Range(stores[last.store].resource_segments) :
      seg.id \in Range(last.ret) =>
        seg.text = normalize_text(seg.text) /\ seg.text_hash = Sha256(seg.text)

-----------------------------------------------------------------------------
(* C31: windowing.  Every segment a segmenter returns is the single-space  *)
(* join of between 1 and SentencesPerSegment consecutive sentences of one  *)
(* page, one markdown paragraph or the flat text: the sentences from the   *)
(* offset provenance.sentence on, provenance.sentence_count of them.  The  *)
(* segments of the list, in order, take every sentence the splitter kept   *)
(* exactly once.                                                            *)

\* the texts a segment of the document may be cut from: the pages with the
\* page number of the provenance, the paragraph it numbers, or the text
UnitsOf(input, provenance) ==
  CASE input.kind = "pages" ->
         {input.doc[k].text : k \in {j \in 1..Len(input.doc) :
                                       input.doc[j].page_num = provenance.page}}
    [] input.kind = "markdown" ->
         {JoinSpace(Paragraphs(input.doc, <<>>)[k]) :
            k \in {j \in 1..Len(Paragraphs(input.doc, <<>>)) : j = provenance.para + 1}}
    [] OTHER -> {input.doc}

\* the text is that of count sentences from offset on
IsWindow(text, sentences, offset, count) ==
  /\ 1 <= count /\ count <= SentencesPerSegment
  /\ offset + count <= Len(sentences)
  /\ text = JoinSpace(SubSeq(sentences, offset + 1, offset + count))

RECURSIVE SentenceCounts(_)
SentenceCounts(segments) ==
  IF segments = <<>> THEN 0
  ELSE Head(segments).provenance.sentence_count + SentenceCounts(Tail(segments))

C31_WindowsPartition ==
  last.op \in SegmenterOps =>
    /\ \A k \in 1..Len(last.ret) :
         \E unit \in UnitsOf(files, last.ret[k].provenance) :
           IsWindow(last.ret[k].text, split_sentences(unit),
                    last.ret[k].provenance.sentence,
                    last.ret[k].provenance.sentence_count)
    /\ SentenceCounts(last.ret) = Len(DocumentSentences(files))
    /\ JoinSpace([k \in 1..Len(last.ret) |-> last.ret[k].text])
         = JoinSpace(DocumentSentences(files))

\* a markdown text with a paragraph of four sentences, cut into a segment of
\* three and one of one, and a second paragraph
C31_Witness ==
  /\ last.op = "segment_markdown"
  /\ \E k \in 1..Len(last.ret) :
       last.ret[k].provenance.sentence = 3 /\ last.ret[k].provenance.sentence_count = 1
  /\ \E k \in 1..Len(last.ret) : last.ret[k].provenance.para = 1

-----------------------------------------------------------------------------
(* C34: distinct ids.  The ids of the segments one run of a segmenter      *)
(* returns are pairwise distinct, the pages numbered as PDFExtractor       *)
(* numbers them (no number twice).                                         *)

DistinctPageNumbers(input) ==
  input.kind = "pages" =>
    \A i, j \in 1..Len(input.doc) :
      input.doc[i].page_num = input.doc[j].page_num => i = j

C34_CountIsCountSegments ==
  [][/\ last'.op = "ingest_file"
     /\ ~IsError(last'.kind)
     /\ count_segments(stores[last'.store], last'.namespace) = 0
     => last'.count = count_segments(stores'[last'.store], last'.namespace)]_vars

-----------------------------------------------------------------------------
(* C35: indexes without gaps.  The segment_index values of the n segments  *)
(* of a run are 0, 1, ..., n-1 in list order.                              *)

C35_IndexesWithoutGaps ==
  last.op \in SegmenterOps =>
    \A k \in 1..Len(last.ret) : last.ret[k].segment_index = k - 1

\* the same of segment_pages and segment_text alone
C35_PagesAndTextWithoutGaps ==
  last.op \in {"segment_pages", "segment_text"} =>
    \A k \in 1..Len(last.ret) : last.ret[k].segment_index = k - 1

-----------------------------------------------------------------------------
(* C36: the id from what is stored.  The id of every segment a segmenter   *)
(* returns is generate_segment_id(namespace, source_uri,                   *)
(* build_provenance_key(segment.provenance), segment.text).                *)

IdRederived(segment, namespace, source_uri) ==
  segment.id = generate_segment_id(namespace, source_uri,
                                   build_provenance_key(segment.provenance),
                                   segment.text)

C36_IdFromProvenance ==
  last.op \in SegmenterOps =>
    \A k \in 1..Len(last.ret) :
      IdRederived(last.ret[k], last.namespace, SourceUri(last.path))

\* the same of segment_pages and segment_markdown alone
C36_PagesAndMarkdownIdFromProvenance ==
  last.op \in {"segment_pages", "segment_markdown"} =>
    \A k \in 1..Len(last.ret) :
      IdRederived(last.ret[k], last.namespace, SourceUri(last.path))

-----------------------------------------------------------------------------
(* C37: recovery.  When an ingest_file of a file failed in the embedding   *)
(* step, and the next call is an ingest_file of the same file with the     *)
(* same bytes that succeeds, then after it every stored segment of the     *)
(* file's resource has an embedding row.                                    *)

\* the latest call on the store was ingest_file of these bytes and raised in
\* the embedding step
FailedInEmbedding(h, namespace, path, content) ==
  \E f \in h.failed :
    /\ f.call = h.calls /\ f.kind = Failure("embed")
    /\ f.namespace = namespace /\ f.path = path /\ f.content = content

\* the indexes of the segment rows of the resource of (namespace, path)
SegmentRowsOf(st, namespace, path) ==
  {i \in 1..Len(st.resource_segments) :
     \E k \in 1..Len(st.information_resources) :
       /\ st.information_resources[k].namespace = namespace
       /\ st.information_resources[k].source_uri = SourceUri(path)
       /\ st.resource_segments[i].ir_id = st.information_resources[k].id}

\* an ingest_file that succeeds right after one that failed in the embedding
\* step, the bytes the same
Recovers ==
  /\ clock' = clock + 1
  /\ last'.op = "ingest_file"
  /\ ~IsError(last'.kind)
  /\ FailedInEmbedding(hist[last'.store], last'.namespace, last'.path,
                       files[last'.path])

C37_RecoveryEmbedsEverySegment ==
  [][Recovers =>
       \A i \in SegmentRowsOf(stores'[last'.store], last'.namespace, last'.path) :
         get_embedding(stores'[last'.store],
                       stores'[last'.store].resource_segments[i].id) # 0]_vars

\* the part that holds: the segments of the bytes ingested are embedded, and
\* the recovery adds no segment, entity or link row
C37_RecoveryEmbedsCurrentSegments ==
  [][Recovers =>
       /\ \A k \in 1..Len(last'.ret) :
            get_embedding(stores'[last'.store], last'.ret[k]) # 0
       /\ Len(stores'[last'.store].resource_segments)
            = Len(stores[last'.store].resource_segments)
       /\ Len(stores'[last'.store].entities) = Len(stores[last'.store].entities)
       /\ Len(stores'[last'.store].segment_entity_links)
            = Len(stores[last'.store].segment_entity_links)]_vars

\* a recovery has happened: the latest call succeeded on the bytes on which
\* the call before it failed in the embedding step
C37_Recovered ==
  /\ last.op = "ingest_file" /\ ~IsError(last.kind) /\ last.count > 0
  /\ \E f \in hist[last.store].failed :
       /\ f.call = hist[last.store].calls - 1 /\ f.kind = Failure("embed")
       /\ f.path = last.path /\ f.content = files[last.path]

-----------------------------------------------------------------------------
(* C38: change detection.  Whenever a segment that the current bytes of    *)
(* the existing file of a resource produce is not stored for the resource, *)
(* reingest_changed of the namespace re-ingests the resource.               *)

\* the ids of the segments the bytes produce for the resource that are not
\* stored for it
MissingSegmentIds(st, ir, content) ==
  {id \in Range(SegmentIds(segment_text(content, ir.id, ir.namespace, ir.source_uri, 0))) :
     \A i \in 1..Len(st.resource_segments) :
       st.resource_segments[i].id = id => st.resource_segments[i].ir_id # ir.id}

C38_ChangedWorkIsReingested ==
  \A s \in DOMAIN stores :
    \A k \in 1..Len(stores[s].information_resources) :
      \A p \in {q \in DOMAIN files :
                  SourceUri(q) = stores[s].information_resources[k].source_uri} :
        /\ PathExists(files[p])
        /\ Strip(files[p]) # <<>>
        /\ MissingSegmentIds(stores[s], stores[s].information_resources[k], files[p]) # {}
        => reingest_changed(stores[s], stores[s].information_resources[k].namespace,
                            files, clock + 1).reingested > 0

\* the stronger reading: the stored content_hash is the hash of the bytes
\* whose segments are the stored ones, so that a resource whose stored
\* segments are not those of the current bytes is re-ingested
C38_HashOfStoredSegments ==
  \A s \in DOMAIN stores :
    \A k \in 1..Len(stores[s].information_resources) :
      \A p \in {q \in DOMAIN files :
                  SourceUri(q) = stores[s].information_resources[k].source_uri} :
        /\ PathExists(files[p])
        /\ stores[s].information_resources[k].content_hash = generate_content_hash(files[p])
        => /\ MissingSegmentIds(stores[s], stores[s].information_resources[k],
                                IF Strip(files[p]) = <<>> THEN <<>> ELSE files[p]) = {}
           /\ \A i \in SegmentRowsOf(stores[s], stores[s].information_resources[k].namespace, p) :
                stores[s].resource_segments[i].id \in
                  Range(SegmentIds(segment_text(files[p],
                          stores[s].information_resources[k].id,
                          stores[s].information_resources[k].namespace,
                          stores[s].information_resources[k].source_uri, 0)))

-----------------------------------------------------------------------------
(* C32: uniqueness under interleaving.  In every state two runs of         *)
(* ingest_file on one store and one namespace can reach, their statements  *)
(* interleaved in any way, no two rows of information_resources have the   *)
(* same (namespace, source_uri), no two rows of entities the same          *)
(* (namespace, type, name), and no two rows of resource_segments the same  *)
(* id.                                                                      *)

C32_UniqueUnderInterleaving ==
  /\ \A i, j \in 1..Len(stores[1].information_resources) :
       /\ stores[1].information_resources[i].namespace
            = stores[1].information_resources[j].namespace
       /\ stores[1].information_resources[i].source_uri
            = stores[1].information_resources[j].source_uri
       => i = j
  /\ \A i, j \in 1..Len(stores[1].entities) :
       /\ stores[1].entities[i].namespace = stores[1].entities[j].namespace
       /\ stores[1].entities[i].type = stores[1].entities[j].type
       /\ stores[1].entities[i].name = stores[1].entities[j].name
       => i = j
  /\ \A i, j \in 1..Len(stores[1].resource_segments) :
       stores[1].resource_segments[i].id = stores[1].resource_segments[j].id => i = j

\* two files that mention the same unknown entity: both runs looked it up
\* and found none, the first has inserted it, the INSERT of the second raised
C32_Witness ==
  /\ runs[1].path # runs[2].path
  /\ runs[1].pc = "done"
  /\ runs[2].pc = "failed" /\ runs[2].error = "ConstraintException"
  /\ runs[2].found = 0 /\ runs[2].pairs # <<>>
  /\ \E i \in 1..Len(stores[1].entities) :
       /\ stores[1].entities[i].id = runs[1].entity.id
       /\ stores[1].entities[i].name = runs[2].entity.name
       /\ stores[1].entities[i].type = runs[2].entity.type
       /\ stores[1].entities[i].id # runs[2].entity.id

\* the same new file: both runs looked the IR up and found none, one has
\* inserted it, the INSERT of the other raised
C32_SameFileInterleaved ==
  /\ runs[1].path = runs[2].path
  /\ runs[2].pc = "failed" /\ runs[2].error = "ConstraintException"
  /\ runs[2].found = 0 /\ runs[2].segments = <<>>
  /\ runs[1].ir.id # runs[2].ir.id
  /\ get_ir_by_id(stores[1], runs[1].ir.id) # 0

-----------------------------------------------------------------------------
(* C33: referential integrity.  In every state the runs can reach, in the  *)
(* middle of an ingestion and after an ingestion that failed at any point, *)
(* every segment row has the id of a stored IR as its ir_id, every link    *)
(* row the ids of a stored segment and of a stored entity of the namespace *)
(* of the segment's IR, and every embedding row the id of a stored segment.*)

ReferencesResolve(st) ==
  /\ \A i \in 1..Len(st.resource_segments) :
       get_ir_by_id(st, st.resource_segments[i].ir_id) # 0
  /\ \A l \in 1..Len(st.segment_entity_links) :
       \E i \in 1..Len(st.resource_segments), e \in 1..Len(st.entities) :
         /\ st.resource_segments[i].id = st.segment_entity_links[l].segment_id
         /\ st.entities[e].id = st.segment_entity_links[l].entity_id
         /\ \E k \in 1..Len(st.information_resources) :
              /\ st.information_resources[k].id = st.resource_segments[i].ir_id
              /\ st.information_resources[k].namespace = st.entities[e].namespace
  /\ \A m \in 1..Len(st.embeddings) :
       get_segment_by_id(st, st.embeddings[m].segment_id) # 0

C33_ReferentialIntegrity == ReferencesResolve(stores[1])

\* one run failed by an exception after its links were collected, the other
\* is in the middle of its ingestion, about to write its embeddings
C33_Witness ==
  \E r, q \in RunIds :
    /\ runs[r].pc = "failed" /\ runs[r].error = "Exception" /\ runs[r].all_links # <<>>
    /\ runs[q].pc = "embed_write"
    /\ stores[1].segment_entity_links # <<>>
    /\ stores[1].resource_segments # <<>>

\* the same in the states of the runs that fail as a whole
C33_AfterFailedIngestion ==
  \A s \in DOMAIN stores : ReferencesResolve(stores[s])

====
